---- MODULE Spec2Model ----
(***************************************************************************)
(* Verification model of the contact-dynamics core of Moby:                *)
(*   - LCP::lcp_lemke / LCP::lcp_lemke_regularized      (src/src/LCP.cpp)   *)
(*   - ConstraintStabilization   (src/src/ConstraintStabilization.cpp)     *)
(*   - TimeSteppingSimulator     (src/src/TimeSteppingSimulator.cpp)       *)
(*   - CCD::find_contacts        (src/include/Moby/CCD.inl)                *)
(*   - RNEAlgorithm              (src/src/RNEAlgorithm.cpp)                *)
(* Real numbers are exact rationals <<num, den>> with den > 0.             *)
(***************************************************************************)
EXTENDS Integers, Sequences, FiniteSets, TLC

VARIABLES lk, rg, ts, st, cd, dd, rn

vars == <<lk, rg, ts, st, cd, dd, rn>>

(***************************************************************************)
(* Bounds of the model.                                                    *)
(***************************************************************************)
\* entries of q are drawn from -MaxQ..MaxQ
MaxQ == 2
\* the wrapper's record of the exponents it tried keeps at most this many
MaxTried == 3

\* the problem sizes n that are modelled (closed-form solves exist for these)
Dims == {0, 1, 2}

(***************************************************************************)
(* Exact rational arithmetic standing for the code's double arithmetic.    *)
(***************************************************************************)
Abs(a) == IF a < 0 THEN -a ELSE a

RECURSIVE Gcd(_, _)
Gcd(a, b) == IF b = 0 THEN a ELSE Gcd(b, a % b)

Rat(a, b) ==
  LET s == IF b < 0 THEN -1 ELSE 1
      g == Gcd(Abs(a), Abs(b))
  IN  <<(s * a) \div g, (s * b) \div g>>

RI(a) == <<a, 1>>
RZero == <<0, 1>>
ROne == <<1, 1>>
RInv(p) == IF p[1] < 0 THEN <<-p[2], -p[1]>> ELSE <<p[2], p[1]>>
RNeg(p) == <<-p[1], p[2]>>
RAdd(p, r) ==
  LET g == Gcd(p[2], r[2])
  IN  Rat(p[1] * (r[2] \div g) + r[1] * (p[2] \div g), (p[2] \div g) * r[2])
RSub(p, r) == RAdd(p, RNeg(r))
RMul(p, r) ==
  LET g1 == Gcd(Abs(p[1]), r[2])
      g2 == Gcd(Abs(r[1]), p[2])
  IN  <<(p[1] \div g1) * (r[1] \div g2), (p[2] \div g2) * (r[2] \div g1)>>
RDiv(p, r) == RMul(p, RInv(r))
\* the order of a/b and c/d (b, d > 0): -1, 0 or 1, by continued fractions
RECURSIVE Cmp(_, _, _, _)
Cmp(a, b, c, d) ==
  LET qa == a \div b
      qc == c \div d
      ra == a % b
      rc == c % d
  IN  IF qa < qc THEN -1
      ELSE IF qa > qc THEN 1
      ELSE IF ra = 0 /\ rc = 0 THEN 0
      ELSE IF ra = 0 THEN -1
      ELSE IF rc = 0 THEN 1
      ELSE -Cmp(b, ra, d, rc)
RLt(p, r) == Cmp(p[1], p[2], r[1], r[2]) < 0
RLe(p, r) == Cmp(p[1], p[2], r[1], r[2]) <= 0
RAbs(p) == <<Abs(p[1]), p[2]>>
RMax(p, r) == IF RLt(p, r) THEN r ELSE p
RMin(p, r) == IF RLt(r, p) THEN r ELSE p

\* 10^e as a rational, e an integer (std::pow(10.0, rf))
RECURSIVE Pow10(_)
Pow10(e) == IF e = 0 THEN ROne
            ELSE IF e > 0 THEN RMul(RI(10), Pow10(e - 1))
            ELSE RDiv(Pow10(e + 1), RI(10))

\* denominator of the stand-in for std::numeric_limits<double>::epsilon()
EpsDen == 1000
EPS == <<1, EpsDen>>

(***************************************************************************)
(* Vectors are sequences of rationals, matrices sequences of rows.         *)
(***************************************************************************)
Idx(v) == 1..Len(v)
VZero(n) == [i \in 1..n |-> RZero]
VNeg(v) == [i \in Idx(v) |-> RNeg(v[i])]
VAdd(v, w) == [i \in Idx(v) |-> RAdd(v[i], w[i])]
VSub(v, w) == [i \in Idx(v) |-> RSub(v[i], w[i])]
VScale(v, c) == [i \in Idx(v) |-> RMul(v[i], c)]
MatCol(A, j) == [i \in Idx(A) |-> A[i][j]]
SetCol(A, j, c) == [i \in Idx(A) |-> [A[i] EXCEPT ![j] = c[i]]]

RECURSIVE RSum(_, _)
RSum(v, k) == IF k = 0 THEN RZero ELSE RAdd(v[k], RSum(v, k - 1))

MatVec(A, v) == [i \in Idx(A) |-> RSum([j \in Idx(v) |-> RMul(A[i][j], v[j])], Len(v))]
Dot(v, w) == RSum([i \in Idx(v) |-> RMul(v[i], w[i])], Len(v))
Hadamard(v, w) == [i \in Idx(v) |-> RMul(v[i], w[i])]
AddDiag(A, lam) == [i \in Idx(A) |-> [j \in Idx(A) |-> IF i = j THEN RAdd(A[i][j], lam) ELSE A[i][j]]]

\* std::min_element / std::max_element: value and first position
RECURSIVE MinOf(_, _)
MinOf(v, k) == IF k = 1 THEN v[1] ELSE RMin(MinOf(v, k - 1), v[k])
VMin(v) == MinOf(v, Len(v))
RECURSIVE MaxOf(_, _)
MaxOf(v, k) == IF k = 1 THEN v[1] ELSE RMax(MaxOf(v, k - 1), v[k])
VMax(v) == MaxOf(v, Len(v))
FirstPos(v, val) == CHOOSE i \in Idx(v) : v[i] = val /\ \A k \in 1..(i - 1) : v[k] # val

\* MatrixNd::norm_inf / VectorNd::norm_inf: the largest magnitude
VNormInf(v) == IF Len(v) = 0 THEN RZero ELSE VMax([i \in Idx(v) |-> RAbs(v[i])])
MNormInf(A) == IF Len(A) = 0 THEN RZero ELSE VMax([i \in Idx(A) |-> VNormInf(A[i])])

(***************************************************************************)
(* The linear solves of lcp_lemke.  solve_fast is the exact solve; on a    *)
(* singular basis the code falls through to the least-squares solvers,     *)
(* which return the minimum-norm least-squares solution (pseudo-inverse).  *)
(***************************************************************************)
\* the 3x3 case is computed on integer images: D*A and E*b, where D and E
\* are the products of the denominators of A and of b
DenProd3(A) ==
  A[1][1][2] * A[1][2][2] * A[1][3][2] * A[2][1][2] * A[2][2][2]
    * A[2][3][2] * A[3][1][2] * A[3][2][2] * A[3][3][2]
DenProdV3(b) == b[1][2] * b[2][2] * b[3][2]
IntMat3(A) ==
  [i \in 1..3 |-> [j \in 1..3 |-> A[i][j][1] * (DenProd3(A) \div A[i][j][2])]]
IntVec3(b) == [i \in 1..3 |-> b[i][1] * (DenProdV3(b) \div b[i][2])]
\* a 2x2 minor of the integer matrix N: rows r1 < r2, columns c1 < c2
Minor(N, r1, r2, c1, c2) == N[r1][c1] * N[r2][c2] - N[r1][c2] * N[r2][c1]
IntDet3(N) ==
  N[1][1] * Minor(N, 2, 3, 2, 3) - N[1][2] * Minor(N, 2, 3, 1, 3)
    + N[1][3] * Minor(N, 2, 3, 1, 2)
IntSetCol(N, j, v) ==
  [i \in 1..3 |-> [k \in 1..3 |-> IF k = j THEN v[i] ELSE N[i][k]]]

Det(A) == IF Len(A) = 1 THEN A[1][1]
          ELSE IF Len(A) = 2
          THEN RSub(RMul(A[1][1], A[2][2]), RMul(A[1][2], A[2][1]))
          ELSE Rat(IntDet3(IntMat3(A)),
                   DenProd3(A) * DenProd3(A) * DenProd3(A))

IsSingular(A) == Det(A) = RZero

\* the exact solve (Cramer's rule)
solve_fast(A, b) ==
  IF Len(A) = 1 THEN <<RDiv(b[1], A[1][1])>>
  ELSE IF Len(A) = 2
  THEN LET d == Det(A)
       IN  << RDiv(RSub(RMul(b[1], A[2][2]), RMul(A[1][2], b[2])), d),
              RDiv(RSub(RMul(A[1][1], b[2]), RMul(b[1], A[2][1])), d) >>
  ELSE [j \in 1..3 |->
          Rat(DenProd3(A) * IntDet3(IntSetCol(IntMat3(A), j, IntVec3(b))),
              DenProdV3(b) * IntDet3(IntMat3(A)))]

FrobSq(A) == RSum([i \in Idx(A) |-> Dot(A[i], A[i])], Len(A))

\* the squared Frobenius norm of the integer matrix N, and the sum of the
\* squares of its 2x2 minors (zero exactly when the rank is at most 1)
IntFrobSq3(N) ==
  N[1][1] * N[1][1] + N[1][2] * N[1][2] + N[1][3] * N[1][3]
    + N[2][1] * N[2][1] + N[2][2] * N[2][2] + N[2][3] * N[2][3]
    + N[3][1] * N[3][1] + N[3][2] * N[3][2] + N[3][3] * N[3][3]
IntMinorSq3(N) ==
  Minor(N, 1, 2, 1, 2) * Minor(N, 1, 2, 1, 2)
    + Minor(N, 1, 2, 1, 3) * Minor(N, 1, 2, 1, 3)
    + Minor(N, 1, 2, 2, 3) * Minor(N, 1, 2, 2, 3)
    + Minor(N, 1, 3, 1, 2) * Minor(N, 1, 3, 1, 2)
    + Minor(N, 1, 3, 1, 3) * Minor(N, 1, 3, 1, 3)
    + Minor(N, 1, 3, 2, 3) * Minor(N, 1, 3, 2, 3)
    + Minor(N, 2, 3, 1, 2) * Minor(N, 2, 3, 1, 2)
    + Minor(N, 2, 3, 1, 3) * Minor(N, 2, 3, 1, 3)
    + Minor(N, 2, 3, 2, 3) * Minor(N, 2, 3, 2, 3)
\* (N^T v)[j] and (N^T N)[j][k]
IntTv(N, v, j) == N[1][j] * v[1] + N[2][j] * v[2] + N[3][j] * v[3]
IntGram(N, j, k) == N[1][j] * N[1][k] + N[2][j] * N[2][k] + N[3][j] * N[3][k]
\* the pseudo-inverse solution for a 3x3 matrix of rank 1 or 2.  With
\* G = N^T N, c1 = tr G and c2 the sum of the principal 2x2 minors of G, the
\* nonzero eigenvalues l of G satisfy 1/l = c1^-1 (rank 1) and
\* 1/l = (c1 - l)/c2 (rank 2), so N^+ = N^T/c1 and N^+ = (c1 I - G) N^T/c2
solve_LS3(A, b) ==
  LET N == IntMat3(A)
      v == IntVec3(b)
  IN  IF IntMinorSq3(N) = 0
      THEN [j \in 1..3 |-> Rat(DenProd3(A) * IntTv(N, v, j),
                               DenProdV3(b) * IntFrobSq3(N))]
      ELSE [j \in 1..3 |->
              Rat(DenProd3(A) * (IntFrobSq3(N) * IntTv(N, v, j)
                    - (IntGram(N, j, 1) * IntTv(N, v, 1)
                       + IntGram(N, j, 2) * IntTv(N, v, 2)
                       + IntGram(N, j, 3) * IntTv(N, v, 3))),
                  DenProdV3(b) * IntMinorSq3(N))]

\* rank < n: the minimum-norm least-squares solution; 0 for the zero
\* matrix, x = A^T b / ||A||_F^2 for rank 1
solve_LS(A, b) ==
  IF FrobSq(A) = RZero THEN VZero(Len(A))
  ELSE IF Len(A) <= 2
       THEN [j \in Idx(A) |-> RDiv(Dot(MatCol(A, j), b), FrobSq(A))]
       ELSE solve_LS3(A, b)

\* the try/catch cascade of the dense variant
DenseSolve(A, b) == IF IsSingular(A) THEN solve_LS(A, b) ELSE solve_fast(A, b)

(***************************************************************************)
(* LCP::lcp_lemke.  Basic variables are numbered as in the code:           *)
(* z_i = i, w_i = n + i, the artificial variable t = 2n (0-based), while   *)
(* positions in bas, x and the columns of Bl are 1-based here.             *)
(***************************************************************************)
Iota(n) == [i \in 1..n |-> i - 1]

MAXITER(n) == IF 50 * n < 1000 THEN 50 * n ELSE 1000

\* zero_tol <= 0 selects eps * ||M||_inf * n
DefaultZeroTol(M, n, zero_tol) ==
  IF RLe(zero_tol, RZero) THEN RMul(RMul(EPS, MNormInf(M)), RI(n)) ELSE zero_tol

\* piv_tol <= 0 selects eps * n * max(1, ||Be||_inf)
PivTol(piv_tol, n, Be) ==
  IF RLt(RZero, piv_tol) THEN piv_tol
  ELSE RMul(RMul(EPS, RI(n)), RMax(ROne, VNormInf(Be)))

\* a trivial-exit test that forgets the tolerance
TrivialExit_NoTol(q, zt) == RLt(RZero, VMin(q))

\* "see whether trivial solution exists"
TrivialExit(q, zt) == RLt(RNeg(zt), VMin(q))

InitialBas(z0, n) ==
  SelectSeq(Iota(n), LAMBDA i : Len(z0) = n /\ RLt(RZero, z0[i + 1]))

InitialNonbas(z0, n) ==
  SelectSeq(Iota(n), LAMBDA i : ~(Len(z0) = n /\ RLt(RZero, z0[i + 1])))

\* B = [M(:,bas) | -I(:,nonbas)]; the sparse variant stores +1 for the
\* identity columns when bas is non-empty
InitialBasis(variant, M, bas, nonbas) ==
  LET n == Len(M)
      one == IF variant = "sparse" /\ bas # <<>> THEN ROne ELSE RNeg(ROne)
  IN  [i \in 1..n |-> [k \in 1..n |->
        IF k <= Len(bas) THEN M[i][bas[k] + 1]
        ELSE IF nonbas[k - Len(bas)] + 1 = i THEN one ELSE RZero]]

\* z.set_zero(2n); z[bas[idx]] = x[idx]; z.resize(n, true)
ZFromBasis(bas, x, n) ==
  [i \in 1..n |->
    IF \E k \in Idx(bas) : bas[k] = i - 1
    THEN x[CHOOSE k \in Idx(bas) : bas[k] = i - 1]
    ELSE RZero]

IdleLemke ==
  [pc |-> "idle", variant |-> "dense", caller |-> "user", n |-> 0,
   M |-> <<>>, q |-> <<>>, piv_tol |-> RZero, zero_tol |-> RZero,
   bas |-> <<>>, x |-> <<>>, Bl |-> <<>>, leaving |-> 0, iter |-> 0,
   nbody |-> 0, lastlv |-> 0, lastJ |-> <<>>, lastd |-> <<>>,
   z |-> <<>>, res |-> FALSE, exit |-> "none"]

LemkeRet(f, res, z, exit) ==
  [f EXCEPT !.pc = "ret", !.res = res, !.z = z, !.exit = exit]

\* lines 141-294: everything before the main loop
LemkeEntry(variant, M, q, z0, piv_tol, zero_tol_in, caller) ==
  LET n == Len(q)
      zt == DefaultZeroTol(M, n, zero_tol_in)
      f0 == [IdleLemke EXCEPT !.variant = variant, !.caller = caller, !.n = n,
                              !.M = M, !.q = q, !.piv_tol = piv_tol,
                              !.zero_tol = zt]
  IN
  IF n = 0 THEN LemkeRet(f0, TRUE, <<>>, "n0")
  ELSE IF TrivialExit(q, zt) THEN LemkeRet(f0, TRUE, VZero(n), "trivial")
  ELSE
    LET bas0 == InitialBas(z0, n)
        nonbas0 == InitialNonbas(z0, n)
        B0 == InitialBasis(variant, M, bas0, nonbas0)
    IN
    IF variant = "sparse" /\ IsSingular(B0)
    THEN [f0 EXCEPT !.pc = "threw", !.exit = "singular"]
    ELSE
      LET x0 == VNeg(DenseSolve(B0, q)) IN
      IF \A i \in 1..n : ~RLt(x0[i], RZero)
      THEN LemkeRet(f0, TRUE, ZFromBasis(bas0, x0, n), "initial")
      ELSE
        LET minx == VMin(x0)
            lvindex == FirstPos(x0, minx)
            tval == RNeg(minx)
            bas1 == bas0 \o [k \in 1..Len(nonbas0) |-> nonbas0[k] + n]
            u == [i \in 1..n |-> IF RLt(x0[i], RZero) THEN ROne ELSE RZero]
            Be == VNeg(MatVec(B0, u))
            x1 == [VAdd(x0, VScale(u, tval)) EXCEPT ![lvindex] = tval]
        IN [f0 EXCEPT !.pc = "loop",
                      !.leaving = bas1[lvindex],
                      !.bas = [bas1 EXCEPT ![lvindex] = 2 * n],
                      !.x = x1,
                      !.Bl = SetCol(B0, lvindex, Be)]

\* the ratio test of the dense variant: positions of J whose x/d does not
\* exceed theta = min (x + zero_tol)/d
RatioFilter(J, x, dl, zt) ==
  LET theta == VMin([k \in Idx(J) |-> RDiv(RAdd(x[J[k]], zt), dl[J[k]])])
  IN  SelectSeq(J, LAMBDA i : RLe(RDiv(x[i], dl[i]), theta))

\* a choice that takes the first retained candidate
ChooseLeaving_First(J, bas, dl, t) == J[1]

\* "check whether artificial index among these", else the maximum of dj
ChooseLeaving(J, bas, dl, t) ==
  IF \E k \in Idx(J) : bas[J[k]] = t
  THEN J[CHOOSE k \in Idx(J) : bas[J[k]] = t /\ \A m \in 1..(k - 1) : bas[J[m]] # t]
  ELSE LET dj == [k \in Idx(J) |-> dl[J[k]]]
       IN  J[FirstPos(dj, VMax(dj))]

\* lines 297-438: one execution of the body of the main loop.  S is the set
\* of positions the sparse variant's ratio test retains (it divides by the
\* stale member _d instead of the pivot column _dl).
LemkeStep(f, S) ==
  LET n == f.n
      t == 2 * n
      g == [f EXCEPT !.nbody = f.nbody + 1]
  IN
  IF f.leaving = t
  THEN LemkeRet(g, TRUE, ZFromBasis(f.bas, f.x, n), "solved")
  ELSE
    LET entering == IF f.leaving < n THEN n + f.leaving ELSE f.leaving - n
        Be == IF f.leaving < n
              THEN [i \in 1..n |-> IF i = f.leaving + 1 THEN RNeg(ROne) ELSE RZero]
              ELSE MatCol(f.M, entering + 1)
    IN
    IF f.variant = "sparse" /\ IsSingular(f.Bl)
    THEN [g EXCEPT !.pc = "threw", !.exit = "singular"]
    ELSE
      LET dl == DenseSolve(f.Bl, Be)
          PIV_TOL == PivTol(f.piv_tol, n, Be)
          J == SelectSeq([i \in 1..n |-> i], LAMBDA i : RLt(PIV_TOL, dl[i]))
      IN
      IF J = <<>> THEN LemkeRet(g, FALSE, VZero(n), "ray")
      ELSE
        LET J2 == IF f.variant = "sparse"
                  THEN SelectSeq(J, LAMBDA i : i \in S)
                  ELSE RatioFilter(J, f.x, dl, f.zero_tol)
        IN
        IF J2 = <<>> THEN LemkeRet(g, FALSE, VZero(n), "zerotol")
        ELSE
          LET lvindex == ChooseLeaving(J2, f.bas, dl, t)
              ratio == RDiv(f.x[lvindex], dl[lvindex])
          IN [g EXCEPT !.leaving = f.bas[lvindex],
                       !.x = [VSub(f.x, VScale(dl, ratio)) EXCEPT ![lvindex] = ratio],
                       !.Bl = SetCol(f.Bl, lvindex, Be),
                       !.bas = [f.bas EXCEPT ![lvindex] = entering],
                       !.lastlv = lvindex, !.lastJ = J2, !.lastd = dl,
                       !.iter = f.iter + 1]

\* an off-by-one loop test
LoopTest_OffByOne(iter, n) == iter <= MAXITER(n)

\* the loop test "iter < MAXITER"
LoopTest(iter, n) == iter < MAXITER(n)

(***************************************************************************)
(* LCP::lcp_lemke_regularized.                                             *)
(***************************************************************************)
\* ZERO_TOL of the wrapper: zero_tol if positive, else n * eps
WrapperZeroTol(n, zero_tol) ==
  IF RLt(RZero, zero_tol) THEN zero_tol ELSE RMul(RI(n), EPS)

\* lines 62-79: verification of the unregularized attempt (w = M z + q)
VerifyRaw(M, q, z, ZT) ==
  LET w == VAdd(MatVec(M, z), q)
      zw == Hadamard(z, w)
  IN  /\ RLe(RNeg(ZT), VMin(z))
      /\ RLe(RNeg(ZT), VMin(w))
      /\ RLe(RNeg(ZT), VMin(zw))
      /\ RLt(VMax(zw), ZT)

\* a verification that forgets to check w
VerifyReg_NoW(M, q, z, lambda, ZT) ==
  LET w == VAdd(MatVec(AddDiag(M, lambda), z), q)
      zw == Hadamard(z, w)
  IN  /\ RLt(RNeg(ZT), VMin(z))
      /\ RLt(RNeg(ZT), VMin(zw))
      /\ RLt(VMax(zw), ZT)

\* lines 100-122: verification of a regularized attempt (w = (M + lambda I) z + q)
VerifyReg(M, q, z, lambda, ZT) ==
  LET w == VAdd(MatVec(AddDiag(M, lambda), z), q)
      zw == Hadamard(z, w)
  IN  /\ RLt(RNeg(ZT), VMin(z))
      /\ RLt(RNeg(ZT), VMin(w))
      /\ RLt(RNeg(ZT), VMin(zw))
      /\ RLt(VMax(zw), ZT)

\* a regularization loop that also tries max_exp itself
RegLoopTest_Inclusive(rf, max_exp) == rf <= max_exp

\* the test of the regularization loop, "rf < max_exp"
RegLoopTest(rf, max_exp) == rf < max_exp

IdleReg ==
  [pc |-> "idle", n |-> 0, M |-> <<>>, q |-> <<>>, piv_tol |-> RZero,
   zero_tol |-> RZero, ZERO_TOL |-> RZero, min_exp |-> 0, step_exp |-> 0,
   max_exp |-> 0, rf |-> 0, z |-> <<>>, res |-> FALSE, Macc |-> <<>>,
   tried |-> <<>>, ncalls |-> 0]

(***************************************************************************)
(* Inputs.                                                                 *)
(***************************************************************************)
\* the entries of M
MVals == {RI(a) : a \in {-1, 0, 1}}
QVals == {RI(a) : a \in -MaxQ..MaxQ}
Vectors(n, S) == [1..n -> S]
Matrices(n, S) == [1..n -> [1..n -> S]]
\* the initial guess held by z on entry: none, or a 0/1 pattern
Guesses(n) == {<<>>, [i \in 1..n |-> ROne], [i \in 1..n |-> IF i = 1 THEN ROne ELSE RZero]}
\* zero_tol: 0 asks for the default tolerance
ZeroTols == {RZero, ROne}
\* piv_tol: 0 asks for the default tolerance
PivTols == {RZero}
\* min_exp, max_exp and step_exp of the wrapper
MinExps == {-1, 0}
MaxExps == {0, 1}
StepExps == {0, 1}
Variants == {"dense", "sparse"}
\* problems of three variables: a family whose first column of M makes two
\* w variables candidates of the first ratio test, and one problem on which
\* the pivoting can go on for MAXITER iterations
Matrices3 ==
  {<< <<ROne, a, RZero>>, <<RNeg(ROne), ROne, b>>, <<RNeg(ROne), RZero, ROne>> >> :
     a \in MVals, b \in MVals}
  \cup {<< <<RI(1), RI(0), RI(1)>>, <<RI(-1), RI(-1), RI(1)>>, <<RI(1), RI(-1), RI(-1)>> >>}
Vectors3 ==
  {<<RI(-2), a, ROne>> : a \in {RI(-1), ROne}} \cup {<<RI(-1), RI(-1), RI(2)>>}

(***************************************************************************)
(* Actions of the LCP solver.                                              *)
(***************************************************************************)
\* a direct call of lcp_lemke (dense or sparse)
CallLemke ==
  /\ lk.pc = "idle" /\ rg.pc = "idle"
  /\ \E n \in Dims \ {0}, variant \in Variants, zt \in ZeroTols, pt \in PivTols :
       \E M \in Matrices(n, MVals), q \in Vectors(n, QVals), z0 \in Guesses(n) :
         lk' = LemkeEntry(variant, M, q, z0, pt, zt, "user")
  /\ UNCHANGED <<cd, dd, rn, rg, ts, st>>

\* a direct call of lcp_lemke on a problem of three variables
CallLemke3 ==
  /\ lk.pc = "idle" /\ rg.pc = "idle"
  /\ \E variant \in Variants, zt \in ZeroTols, M \in Matrices3, q \in Vectors3 :
       lk' = LemkeEntry(variant, M, q, <<>>, RZero, zt, "user")
  /\ UNCHANGED <<cd, dd, rn, rg, ts, st>>

\* lcp_lemke on a zero-size problem
CallLemkeEmpty ==
  /\ lk.pc = "idle" /\ rg.pc = "idle"
  /\ \E variant \in Variants :
       lk' = LemkeEntry(variant, <<>>, <<>>, <<>>, RZero, RZero, "user")
  /\ UNCHANGED <<cd, dd, rn, rg, ts, st>>

\* one iteration of the main loop
LemkeIter ==
  /\ lk.pc = "loop"
  /\ LoopTest(lk.iter, lk.n)
  /\ \E S \in SUBSET (1..lk.n) :
       /\ lk.variant = "dense" => S = {}
       /\ lk' = LemkeStep(lk, S)
  /\ UNCHANGED <<cd, dd, rn, rg, ts, st>>

\* lines 440-446: "maximum number of iterations exceeded"
LemkeCap ==
  /\ lk.pc = "loop"
  /\ ~LoopTest(lk.iter, lk.n)
  /\ lk' = LemkeRet(lk, FALSE, VZero(lk.n), "maxiter")
  /\ UNCHANGED <<cd, dd, rn, rg, ts, st>>

\* lines 40-59: entry of the wrapper and the unregularized attempt
RegCall ==
  /\ lk.pc = "idle" /\ rg.pc = "idle"
  /\ \E n \in Dims, zt \in ZeroTols, pt \in PivTols,
        min_exp \in MinExps, max_exp \in MaxExps, step_exp \in StepExps :
       \E M \in Matrices(n, MVals), q \in Vectors(n, QVals), z0 \in {<<>>} :
         LET r0 == [IdleReg EXCEPT !.n = n, !.M = M, !.q = q, !.piv_tol = pt,
                                   !.zero_tol = zt, !.min_exp = min_exp,
                                   !.step_exp = step_exp, !.max_exp = max_exp,
                                   !.ZERO_TOL = WrapperZeroTol(n, zt)]
         IN IF n = 0
            THEN /\ rg' = [r0 EXCEPT !.pc = "ret", !.res = TRUE, !.z = <<>>]
                 /\ UNCHANGED <<cd, dd, rn, lk, ts, st>>
            ELSE /\ rg' = [r0 EXCEPT !.pc = "raw", !.ncalls = 1]
                 /\ lk' = LemkeEntry("dense", M, q, z0, pt, zt, "reg")
                 /\ UNCHANGED <<cd, dd, rn, ts, st>>

\* lines 60-83: verification of the unregularized attempt
RegVerifyRaw ==
  /\ rg.pc = "raw" /\ lk.pc = "ret"
  /\ IF lk.res /\ VerifyRaw(rg.M, rg.q, lk.z, rg.ZERO_TOL)
     THEN rg' = [rg EXCEPT !.pc = "ret", !.res = TRUE, !.z = lk.z, !.Macc = rg.M]
     ELSE rg' = [rg EXCEPT !.pc = "loop", !.rf = rg.min_exp, !.z = lk.z]
  /\ lk' = IdleLemke
  /\ UNCHANGED <<cd, dd, rn, ts, st>>

\* lines 84-98: one regularized attempt
RegTry ==
  /\ rg.pc = "loop" /\ lk.pc = "idle"
  /\ RegLoopTest(rg.rf, rg.max_exp)
  /\ lk' = LemkeEntry("dense", AddDiag(rg.M, Pow10(rg.rf)), rg.q, rg.z,
                      rg.piv_tol, rg.zero_tol, "reg")
  /\ rg' = [rg EXCEPT !.pc = "reg", !.tried = IF Len(rg.tried) < MaxTried
                                 THEN Append(rg.tried, rg.rf) ELSE rg.tried,
                      !.ncalls = IF rg.ncalls <= MaxTried
                                 THEN rg.ncalls + 1 ELSE rg.ncalls]
  /\ UNCHANGED <<cd, dd, rn, ts, st>>

\* lines 98-127: verification of a regularized attempt, else "increase rf"
RegVerify ==
  /\ rg.pc = "reg" /\ lk.pc = "ret"
  /\ IF lk.res /\ VerifyReg(rg.M, rg.q, lk.z, Pow10(rg.rf), rg.ZERO_TOL)
     THEN rg' = [rg EXCEPT !.pc = "ret", !.res = TRUE, !.z = lk.z,
                           !.Macc = AddDiag(rg.M, Pow10(rg.rf))]
     ELSE rg' = [rg EXCEPT !.pc = "loop", !.rf = rg.rf + rg.step_exp, !.z = lk.z]
  /\ lk' = IdleLemke
  /\ UNCHANGED <<cd, dd, rn, ts, st>>

\* lines 129-133: "unable to solve given any regularization"
RegFail ==
  /\ rg.pc = "loop" /\ lk.pc = "idle"
  /\ ~RegLoopTest(rg.rf, rg.max_exp)
  /\ rg' = [rg EXCEPT !.pc = "ret", !.res = FALSE]
  /\ UNCHANGED <<cd, dd, rn, lk, ts, st>>

(***************************************************************************)
(* The simulated world of TimeSteppingSimulator and                        *)
(* ConstraintStabilization: nb rigid bodies on a line, each with one       *)
(* generalized coordinate q[i] and one generalized velocity qd[i], and one *)
(* unit-diameter geometry per body.  The collision facade, the dynamics    *)
(* facade and the user callbacks are the environment of the model.         *)
(***************************************************************************)
\* at most this many bodies
MaxBodies == 3
\* calls of step() that are followed
MaxSteps == 1
\* mini-steps that one step() is followed through
MaxMini == 3
\* iterations of the projection loop that one stabilize() is followed through
MaxStab == 2
\* backtracking steps that one update_q() is followed through
MaxK == 2

\* std::numeric_limits<double>::max(), larger than every modelled quantity
DblMax == 100000
DBL_MAX == RI(DblMax)
INF == DBL_MAX

\* the pairs of bodies, in the order of the list _pairwise_distances
RECURSIVE PairsFrom(_, _, _)
PairsFrom(a, b, nb) ==
  IF a >= nb THEN <<>>
  ELSE IF b > nb THEN PairsFrom(a + 1, a + 2, nb)
       ELSE <<<<a, b>>>> \o PairsFrom(a, b + 1, nb)
PairSeq(nb) == PairsFrom(1, 2, nb)

\* signed distance of two unit-diameter geometries centred at x and y
calc_signed_dist(x, y) == RSub(RAbs(RSub(x, y)), ROne)

\* ConstraintSimulator::calc_pairwise_distances: one PairwiseDistInfo a pair
calc_pairwise_distances(q) ==
  LET ps == PairSeq(Len(q))
  IN  [k \in 1..Len(ps) |->
         [a |-> ps[k][1], b |-> ps[k][2],
          dist |-> calc_signed_dist(q[ps[k][1]], q[ps[k][2]])]]

\* ConstraintSimulator::find_unilateral_constraints: the pairs within
\* contact_dist_thresh
find_unilateral_constraints(pdi, contact_dist_thresh) ==
  {k \in 1..Len(pdi) : RLe(pdi[k].dist, contact_dist_thresh)}

\* the pairs neither body of which is compliant
NonCompliant(pdi, compliant) ==
  {k \in 1..Len(pdi) : ~compliant[pdi[k].a] /\ ~compliant[pdi[k].b]}

(***************************************************************************)
(* ConstraintStabilization                                                 *)
(***************************************************************************)
\* get_min_pairwise_dist: "set distance to infinite initially", then the
\* minimum over every entry of the list
RECURSIVE MinDistFrom(_, _, _)
MinDistFrom(pdi, i, dist) ==
  IF i > Len(pdi) THEN dist
  ELSE MinDistFrom(pdi, i + 1, RMin(dist, pdi[i].dist))
get_min_pairwise_dist(pdi) == MinDistFrom(pdi, 1, DBL_MAX)

\* compute_s (no articulated body is modelled, so no joint term)
compute_s(pdi) == RMax(get_min_pairwise_dist(pdi), RZero)

\* get_body_configurations: the bodies' coordinates, concatenated
get_body_configurations(q) == q

\* update_body_configurations: the first body reads the segment at offset 0,
\* every later body the segment at offset "last = ngc" (ngc = 1 here)
update_body_configurations(qv, nb) ==
  [k \in 1..nb |-> IF k = 1 THEN qv[1] ELSE qv[2]]

\* the loop test of stabilize, with its off-by-one-unit variant
StabLoopTest_Late(min_dist, eps) == RLt(RAdd(min_dist, ROne), eps)

StabLoopTest(min_dist, eps) == RLt(min_dist, eps)

\* update_q: the parameters of the backtracking line search
ALPHA == <<1, 20>>
BETA == <<4, 5>>

\* the scalar that "ALPHA * t * (dq)" adds to s0: the expression is ill-typed
\* (dq is a vector), so a build takes one reading of it, fixed by gterm
GradTerm(gterm, t, dq) ==
  LET g == IF gterm = "sum" THEN RSum(dq, Len(dq)) ELSE VNormInf(dq)
  IN  RMul(RMul(ALPHA, t), g)

\* the test of the line search: sstar > s0 + ALPHA * t * (dq)
LineSearchTest(sstar, s0, gterm, t, dq) ==
  RLt(RAdd(s0, GradTerm(gterm, t, dq)), sstar)

\* the stabilizer between calls
IdleST(eps, gterm) ==
  [pc |-> "idle", caller |-> "none", eps |-> eps, gterm |-> gterm,
   q |-> <<>>, dq |-> <<>>, qstar |-> <<>>, t |-> ROne, k |-> 0,
   s0 |-> RZero, min_dist |-> RZero, iters |-> 0,
   second |-> FALSE, prev_iters |-> 0, q_entry |-> <<>>, stalled |-> FALSE]

\* stabilize, lines 48-60: up to the first evaluation of the loop test, with
\* the variant that tests after the body only
StabilizeEntry_DoWhile(s, q, pdi, caller) ==
  [IdleST(s.eps, s.gterm) EXCEPT
     !.pc = "iter", !.caller = caller,
     !.q = get_body_configurations(q),
     !.min_dist = get_min_pairwise_dist(pdi),
     !.second = (s.pc = "ret"), !.prev_iters = s.iters, !.q_entry = q]

StabilizeEntry(s, q, pdi, caller) ==
  LET min_dist == get_min_pairwise_dist(pdi)
  IN  [IdleST(s.eps, s.gterm) EXCEPT
         !.pc = IF StabLoopTest(min_dist, s.eps) THEN "iter" ELSE "ret",
         !.caller = caller,
         !.q = IF StabLoopTest(min_dist, s.eps)
               THEN get_body_configurations(q) ELSE <<>>,
         !.min_dist = min_dist,
         !.second = (s.pc = "ret"), !.prev_iters = s.iters, !.q_entry = q]

(***************************************************************************)
(* TimeSteppingSimulator                                                   *)
(***************************************************************************)
\* calc_next_CA_Euler_step: the least event time over the pairs neither body
\* of which is compliant, ev[k] being what the collision facade answers for
\* pair k; the variant starts from 0 in place of INF
RECURSIVE CAFrom(_, _, _, _, _)
CAFrom(pdi, compliant, ev, i, next_event_time) ==
  IF i > Len(pdi) THEN next_event_time
  ELSE IF compliant[pdi[i].a] \/ compliant[pdi[i].b]
       THEN CAFrom(pdi, compliant, ev, i + 1, next_event_time)
       ELSE CAFrom(pdi, compliant, ev, i + 1, RMin(next_event_time, ev[i]))

calc_next_CA_Euler_step_Zero(pdi, compliant, ev) ==
  CAFrom(pdi, compliant, ev, 1, RZero)

calc_next_CA_Euler_step(pdi, compliant, ev) ==
  CAFrom(pdi, compliant, ev, 1, INF)

\* the order of the phases of step() that the log records
PhasesBeforeEuler ==
  <<"determine_geometries", "broad_phase", "calc_pairwise_distances",
    "step_si_Euler">>

\* the simulator between calls, holding the given world
IdleTS(nb, q, qd, compliant, min_step_size, has_cb, ndebug) ==
  [pc |-> "idle", nb |-> nb, q |-> q, qd |-> qd, compliant |-> compliant,
   pdi |-> calc_pairwise_distances(q), constraints |-> {},
   current_time |-> RZero, min_step_size |-> min_step_size,
   contact_dist_thresh |-> RZero,
   has_cb |-> has_cb, ndebug |-> ndebug,
   step_size |-> RZero, t0 |-> RZero, H |-> RZero, dt |-> RZero,
   h |-> RZero, qsave |-> <<>>, nsteps |-> 0, nmini |-> 0, nsub |-> 0,
   last_h |-> RZero, last_dt |-> RZero, log |-> <<>>, res |-> RZero,
   has_dissipator |-> FALSE, has_mini_cb |-> FALSE, mlog |-> <<>>,
   vh |-> RZero, cor |-> RZero, adv |-> RZero]

\* do_mini_step, lines 116-130: the entry of a mini-step of length dt
BeginMiniStep(s, dt) ==
  [s EXCEPT !.pc = "ca", !.dt = dt, !.h = RZero, !.qsave = s.q,
            !.nmini = @ + 1]

\* the values of the environment
XVals == {RZero, ROne, RI(2)}
QdVals == {RNeg(ROne), RZero}
DqVals == {RZero, <<5, 4>>}
CAVals == {RNeg(ROne), RZero, <<1, 4>>, ROne}
DtVals == {<<1, 2>>, ROne}
EpsVals == {RZero, <<1, 2>>}
MinStepSizes == {<<1, 2>>}
GTerms == {"sum", "norm"}
\* the numbers of bodies of the worlds that step() is followed in
StepWorlds == {0, 1, 2}
\* no body is compliant, or the last one is
Compliances(nb) ==
  {c \in Vectors(nb, BOOLEAN) : \A k \in 1..nb : c[k] => k = nb}
\* the first body starts at the origin
Configurations(nb) ==
  {q \in Vectors(nb, XVals) : nb > 0 => q[1] = RZero}

\* step(), lines 52-88, and the entry of the first mini-step
Step ==
  /\ ts.pc \in {"idle", "ret"} /\ st.pc \in {"idle", "ret"}
  /\ ts.nsteps < MaxSteps
  /\ \E step_size \in DtVals :
       /\ ts' = BeginMiniStep(
                  [ts EXCEPT !.pdi = calc_pairwise_distances(ts.q),
                             !.step_size = step_size,
                             !.t0 = ts.current_time, !.H = RZero,
                             !.nsteps = @ + 1, !.nmini = 0, !.nsub = 0,
                             !.last_h = RZero, !.last_dt = RZero,
                             !.mlog = <<>>, !.vh = RZero, !.cor = RZero,
                             !.adv = RZero,
                             !.log = PhasesBeforeEuler, !.res = RZero],
                  step_size)
  /\ st' = IdleST(st.eps, st.gterm)
  /\ UNCHANGED <<cd, dd, rn, lk, rg>>

\* do_mini_step, lines 133-168: one pass of the position-integration loop;
\* the variant does not restore the saved coordinates before it integrates
CAIterate_NoRestore ==
  /\ ts.pc = "ca"
  /\ LET pdi == calc_pairwise_distances(ts.q)
     IN \E ev \in [1..Len(pdi) -> CAVals] :
          LET CA_step == calc_next_CA_Euler_step(pdi, ts.compliant, ev)
              tc == RMin(RSub(ts.dt, ts.h), RMax(ts.min_step_size, CA_step))
              h == RAdd(ts.h, tc)
          IN IF RLe(CA_step, RZero)
             THEN ts' = [ts EXCEPT !.pdi = pdi, !.pc = "dyn"]
             ELSE ts' = [ts EXCEPT
                           !.pdi = pdi,
                           !.q = VAdd(VScale(ts.qd, h), ts.q),
                           !.h = h, !.nsub = @ + 1,
                           !.pc = IF RLt(h, ts.dt) THEN "ca" ELSE "dyn"]
  /\ UNCHANGED <<cd, dd, rn, lk, rg, st>>

CAIterate ==
  /\ ts.pc = "ca"
  /\ LET pdi == calc_pairwise_distances(ts.q)
     IN \E ev \in [1..Len(pdi) -> CAVals] :
          LET CA_step == calc_next_CA_Euler_step(pdi, ts.compliant, ev)
              tc == RMin(RSub(ts.dt, ts.h), RMax(ts.min_step_size, CA_step))
              h == RAdd(ts.h, tc)
          IN IF RLe(CA_step, RZero)
             THEN ts' = [ts EXCEPT !.pdi = pdi, !.pc = "dyn"]
             ELSE ts' = [ts EXCEPT
                           !.pdi = pdi,
                           !.q = VAdd(VScale(ts.qd, h), ts.qsave),
                           !.h = h, !.nsub = @ + 1,
                           !.pc = IF RLt(h, ts.dt) THEN "ca" ELSE "dyn"]
  /\ UNCHANGED <<cd, dd, rn, lk, rg, st>>

\* a mini-step that runs its callback before it updates the time
MiniStepPhases_CallbackEarly(has_dissipator, has_mini_cb) ==
  <<"integrate_positions", "precalc_fwd_dyn",
    "calc_compliant_unilateral_constraint_forces", "calc_fwd_dyn",
    "integrate_velocities">>
  \o (IF has_dissipator THEN <<"dissipator">> ELSE <<>>)
  \o <<"calc_pairwise_distances", "find_unilateral_constraints",
       "calc_impacting_unilateral_constraint_forces">>
  \o (IF has_mini_cb THEN <<"post_mini_step_callback_fn">> ELSE <<>>)
  \o <<"update_time">>

\* do_mini_step, lines 133-219: the calls of one mini-step, in program order
MiniStepPhases(has_dissipator, has_mini_cb) ==
  <<"integrate_positions", "precalc_fwd_dyn",
    "calc_compliant_unilateral_constraint_forces", "calc_fwd_dyn",
    "integrate_velocities">>
  \o (IF has_dissipator THEN <<"dissipator">> ELSE <<>>)
  \o <<"calc_pairwise_distances", "find_unilateral_constraints",
       "calc_impacting_unilateral_constraint_forces", "update_time">>
  \o (IF has_mini_cb THEN <<"post_mini_step_callback_fn">> ELSE <<>>)

\* the argument of calc_impacting_unilateral_constraint_forces (line 212)
RestitutionSentinel == RNeg(ROne)

\* do_mini_step, lines 170-221, and step_si_Euler, lines 440-441: the rest
\* of the mini-step, "h += do_mini_step(dt-h)" and the loop test.  The
\* velocities after forward dynamics and impacts are the environment's;
\* mlog, vh (the factor of "qdd *= h"), cor and adv (the amount added to
\* current_time) record what the mini-step did.
MiniStepFinish ==
  /\ ts.pc = "dyn"
  /\ \E qd \in Vectors(ts.nb, QdVals) :
       LET H == RAdd(ts.H, ts.h)
           pdi == calc_pairwise_distances(ts.q)
           s == [ts EXCEPT !.qd = qd,
                           !.pdi = pdi,
                           !.constraints = find_unilateral_constraints(
                                             pdi, ts.contact_dist_thresh),
                           !.current_time = RAdd(@, ts.h),
                           !.H = H, !.last_h = ts.h, !.last_dt = ts.dt,
                           !.qsave = <<>>,
                           !.mlog = MiniStepPhases(ts.has_dissipator, ts.has_mini_cb),
                           !.vh = ts.h, !.cor = RestitutionSentinel,
                           !.adv = ts.h]
       IN IF RLt(H, ts.step_size)
          THEN /\ ts.nmini < MaxMini
               /\ ts' = BeginMiniStep(s, RSub(ts.step_size, H))
          ELSE ts' = [s EXCEPT !.pc = "post"]
  /\ UNCHANGED <<cd, dd, rn, lk, rg, st>>

\* step(), lines 90-97: the post-step callback, then the call of stabilize;
\* the variant stabilizes first
PostStep_StabilizeFirst ==
  /\ ts.pc = "post"
  /\ ts' = [ts EXCEPT !.pc = "stab",
                      !.log = IF ts.has_cb
                              THEN @ \o <<"stabilize", "post_step_callback_fn">>
                              ELSE Append(@, "stabilize")]
  /\ st' = StabilizeEntry(st, ts.q, ts.pdi, "step")
  /\ UNCHANGED <<cd, dd, rn, lk, rg>>

PostStep ==
  /\ ts.pc = "post"
  /\ ts' = [ts EXCEPT !.pc = "stab",
                      !.log = IF ts.has_cb
                              THEN @ \o <<"post_step_callback_fn", "stabilize">>
                              ELSE Append(@, "stabilize")]
  /\ st' = StabilizeEntry(st, ts.q, ts.pdi, "step")
  /\ UNCHANGED <<cd, dd, rn, lk, rg>>

\* step(), lines 100-110: the violation metric (unless NDEBUG) and the return
StepReturn ==
  /\ ts.pc = "stab" /\ st.pc = "ret" /\ st.caller = "step"
  /\ ts' = [ts EXCEPT !.pc = "ret", !.res = ts.step_size,
                      !.log = IF ts.ndebug THEN @ ELSE Append(@, "cvio")]
  /\ UNCHANGED <<cd, dd, rn, lk, rg, st>>

\* stabilize() called by the user, between steps
Stabilize ==
  /\ ts.pc \in {"idle", "ret"} /\ st.pc \in {"idle", "ret"}
  /\ st' = StabilizeEntry(st, ts.q, ts.pdi, "user")
  /\ UNCHANGED <<cd, dd, rn, lk, rg, ts>>

\* stabilize, lines 62-68, and update_q, lines 463-487: dq (what the islands'
\* LCPs scatter into it) is the environment's; the trial with t = 1
StabIterate ==
  /\ st.pc = "iter" /\ st.iters < MaxStab
  /\ \E dq \in Vectors(ts.nb, DqVals) :
       LET qstar == VAdd(VScale(dq, ROne), st.q)
           q == update_body_configurations(qstar, ts.nb)
       IN /\ st' = [st EXCEPT !.pc = "ls", !.dq = dq, !.t = ROne, !.k = 0,
                              !.s0 = compute_s(ts.pdi), !.qstar = qstar]
          /\ ts' = [ts EXCEPT !.q = q, !.pdi = calc_pairwise_distances(q)]
  /\ UNCHANGED <<cd, dd, rn, lk, rg>>

\* update_q, lines 491-509: one backtracking step
Backtrack ==
  /\ st.pc = "ls" /\ st.k < MaxK
  /\ LineSearchTest(compute_s(ts.pdi), st.s0, st.gterm, st.t, st.dq)
  /\ LET t == RMul(st.t, BETA)
         qstar == VAdd(VScale(st.dq, t), st.q)
         q == update_body_configurations(qstar, ts.nb)
     IN /\ st' = [st EXCEPT !.t = t, !.k = @ + 1, !.qstar = qstar]
        /\ ts' = [ts EXCEPT !.q = q, !.pdi = calc_pairwise_distances(q)]
  /\ UNCHANGED <<cd, dd, rn, lk, rg>>

\* update_q, lines 511-512, and stabilize, lines 73-75: q = qstar, the new
\* minimum distance and the loop test
UpdateQReturn ==
  /\ st.pc = "ls"
  /\ ~LineSearchTest(compute_s(ts.pdi), st.s0, st.gterm, st.t, st.dq)
  /\ LET min_dist == get_min_pairwise_dist(ts.pdi)
         again == StabLoopTest(min_dist, st.eps)
     IN st' = [st EXCEPT !.pc = IF again THEN "iter" ELSE "ret",
                         !.q = IF again THEN st.qstar ELSE <<>>,
                         !.min_dist = min_dist, !.iters = @ + 1,
                         !.stalled = again /\ st.qstar = st.q,
                         !.dq = <<>>, !.qstar = <<>>, !.t = ROne, !.k = 0,
                         !.s0 = RZero]
  /\ UNCHANGED <<cd, dd, rn, lk, rg, ts>>

(***************************************************************************)
(* CCD::find_contacts and its kernels (src/include/Moby/CCD.inl).  The     *)
(* geometries lie on a line: a point and a normal are one rational each,   *)
(* and the norm of a normal is its absolute value.  What the primitives    *)
(* answer (is_convex, calc_dist_and_normal, calc_closest_points,           *)
(* calc_height, calc_signed_dist) is the environment's.                    *)
(***************************************************************************)
\* vertices that a geometry offers to a vertex scan, at most
MaxVerts == 1

\* NEAR_ZERO, the square root of the machine epsilon, stands as 1/NearZeroDen
NearZeroDen == 100
NEAR_ZERO == <<1, NearZeroDen>>

\* the primitives that find_contacts tells apart
Kinds == {"sphere", "box", "plane", "heightmap", "convex", "generic"}

\* Primitive::is_convex; what a plane and a heightmap answer is given by cvx
is_convex(p, cvx) ==
  IF p \in {"sphere", "box", "convex"} THEN TRUE
  ELSE IF p = "generic" THEN FALSE
  ELSE cvx[p]

\* the kernel find_contacts selects, and whether it passes (cgB, cgA)
Kernel(name, swap) == [kernel |-> name, swap |-> swap]

Dispatch(pA, pB, cvx) ==
  IF pA = "sphere"
  THEN IF pB = "sphere" THEN Kernel("sphere_sphere", FALSE)
       ELSE IF pB = "box" THEN Kernel("box_sphere", TRUE)
       ELSE IF pB = "heightmap" THEN Kernel("sphere_heightmap", FALSE)
       ELSE Kernel("vertex_scan", FALSE)
  ELSE IF pA = "box"
  THEN IF pB = "sphere" THEN Kernel("box_sphere", FALSE)
       ELSE Kernel("vertex_scan", FALSE)
  ELSE IF pA = "heightmap"
  THEN IF pB = "sphere" THEN Kernel("sphere_heightmap", TRUE)
       ELSE IF is_convex(pB, cvx) THEN Kernel("convex_heightmap", TRUE)
       ELSE Kernel("heightmap_generic", FALSE)
  ELSE IF pA = "plane" THEN Kernel("plane_generic", FALSE)
  ELSE IF pB = "heightmap"
  THEN IF is_convex(pA, cvx) THEN Kernel("convex_heightmap", FALSE)
       ELSE Kernel("heightmap_generic", TRUE)
  ELSE IF pB = "plane" THEN Kernel("plane_generic", TRUE)
  ELSE Kernel("vertex_scan", FALSE)

\* create_contact
create_contact(point, normal) == [point |-> point, normal |-> normal]

\* Vector3d::normalize on the line (the zero vector has no direction)
Normalize(d) ==
  IF RLt(RZero, d) THEN ROne ELSE IF RLt(d, RZero) THEN RNeg(ROne) ELSE RZero

\* the contacts of one vertex loop: ans[i] is what calc_dist_and_normal
\* answers for vertex i; guard tells whether the loop tests the normal
RECURSIVE ScanFrom(_, _, _, _)
ScanFrom(ans, i, negate, guard) ==
  IF i > Len(ans) THEN <<>>
  ELSE IF RLe(ans[i].dist, NEAR_ZERO) /\ ~(guard /\ RLt(RAbs(ans[i].n), NEAR_ZERO))
       THEN <<create_contact(ans[i].v, IF negate THEN RNeg(ans[i].n) ELSE ans[i].n)>>
              \o ScanFrom(ans, i + 1, negate, guard)
       ELSE ScanFrom(ans, i + 1, negate, guard)

\* find_contacts, lines 52-78: the vertex scan, both ways
find_contacts_vertex_scan(ansA, ansB) ==
  ScanFrom(ansA, 1, FALSE, FALSE) \o ScanFrom(ansB, 1, TRUE, FALSE)

find_contacts_plane_generic(ansB) == ScanFrom(ansB, 1, TRUE, TRUE)

find_contacts_heightmap_generic(ansA, ansB) ==
  ScanFrom(ansA, 1, TRUE, TRUE) \o ScanFrom(ansB, 1, FALSE, TRUE)

\* find_contacts_sphere_heightmap and find_contacts_convex_heightmap: the
\* probes of the first pass hit when the height is < NEAR_ZERO, the grid
\* points of the second pass when the distance is <= NEAR_ZERO; the normal is
\* the upward axis or the normalized gradient (-gx, 1, -gz), of norm 1
RECURSIVE HeightFrom(_, _, _)
HeightFrom(ans, i, strict) ==
  IF i > Len(ans) THEN <<>>
  ELSE IF (IF strict THEN RLt(ans[i].dist, NEAR_ZERO)
                     ELSE RLe(ans[i].dist, NEAR_ZERO))
       THEN <<create_contact(ans[i].v, ROne)>> \o HeightFrom(ans, i + 1, strict)
       ELSE HeightFrom(ans, i + 1, strict)

find_contacts_heightmap(probes, grid) ==
  HeightFrom(probes, 1, TRUE) \o HeightFrom(grid, 1, FALSE)

\* find_contacts_sphere_sphere: "if (d.norm() - rA - rB) return o;" returns
\* whenever the difference is not zero
find_contacts_sphere_sphere(cA0, rA, cB0, rB) ==
  LET d == RSub(cA0, cB0)
      n == Normalize(d)
      closest_A == RSub(cA0, RMul(n, rA))
      closest_B == RAdd(cB0, RMul(n, rB))
  IN  IF RSub(RSub(RAbs(d), rA), rB) # RZero THEN <<>>
      ELSE <<create_contact(RMul(RAdd(closest_A, closest_B), <<1, 2>>), n)>>

\* find_contacts_box_sphere: dist is what calc_closest_points answers
find_contacts_box_sphere(pbox, psph, dist) ==
  IF RLt(dist, NEAR_ZERO) THEN <<>>
  ELSE IF RLt(RZero, dist)
       THEN <<create_contact(RMul(RAdd(psph, pbox), <<1, 2>>),
                             Normalize(RSub(pbox, psph)))>>
       ELSE <<create_contact(psph, Normalize(psph))>>

\* the values of the environment
CCDDists == {RNeg(ROne), RZero, ROne}
CCDNormals == {RZero, ROne}
CCDAnswers == [v : {RZero}, dist : CCDDists, n : CCDNormals]
AnswerSeqs == UNION {[1..k -> CCDAnswers] : k \in 0..MaxVerts}
SphereCentres == {RI(a) : a \in 0..3}
SphereRadii == {<<1, 2>>, ROne}
ConvexAnswers == [{"plane", "heightmap"} -> BOOLEAN]

\* the contact generator before its first call
IdleCCD ==
  [pc |-> "idle", pA |-> "generic", pB |-> "generic",
   cvx |-> [p \in {"plane", "heightmap"} |-> FALSE],
   kernel |-> "none", swap |-> FALSE, cA0 |-> RZero, rA |-> RZero,
   cB0 |-> RZero, rB |-> RZero, contacts |-> <<>>]

\* one call of find_contacts(cgA, cgB, output_begin); one call is followed
FindContacts ==
  /\ cd.pc = "idle"
  /\ \E pA \in Kinds : \E pB \in Kinds : \E cvx \in ConvexAnswers :
       LET k == Dispatch(pA, pB, cvx)
           called == [IdleCCD EXCEPT !.pc = "done", !.pA = pA, !.pB = pB,
                                     !.cvx = cvx, !.kernel = k.kernel,
                                     !.swap = k.swap]
       IN  IF k.kernel = "sphere_sphere"
           THEN \E cA0 \in SphereCentres : \E cB0 \in SphereCentres :
                \E rA \in SphereRadii : \E rB \in SphereRadii :
                  cd' = [called EXCEPT
                           !.cA0 = cA0, !.rA = rA, !.cB0 = cB0, !.rB = rB,
                           !.contacts =
                              find_contacts_sphere_sphere(cA0, rA, cB0, rB)]
           ELSE IF k.kernel = "box_sphere"
           THEN \E pbox \in SphereCentres : \E psph \in SphereCentres :
                \E dist \in {RNeg(ROne), RZero, RAbs(RSub(pbox, psph))} :
                  cd' = [called EXCEPT
                           !.contacts = find_contacts_box_sphere(pbox, psph, dist)]
           ELSE \E ansA \in AnswerSeqs : \E ansB \in AnswerSeqs :
                  cd' = [called EXCEPT !.contacts =
                           CASE k.kernel = "vertex_scan" ->
                                  find_contacts_vertex_scan(ansA, ansB)
                             [] k.kernel = "plane_generic" ->
                                  find_contacts_plane_generic(ansB)
                             [] k.kernel = "heightmap_generic" ->
                                  find_contacts_heightmap_generic(ansA, ansB)
                             [] OTHER -> find_contacts_heightmap(ansA, ansB)]
  /\ UNCHANGED <<lk, rg, ts, st, dd, rn>>

(***************************************************************************)
(* ConstraintStabilization::determine_dq, as stabilize calls it for the    *)
(* islands of one iteration (lines 62-71 and 423-458).  Every body has one *)
(* generalized coordinate, so body_index_map sends body b to index b.  The *)
(* islands that compute_problem_data builds and what the LCP solvers       *)
(* return are the environment's.                                           *)
(***************************************************************************)
\* bodies of the simulator, at most
MaxDqBodies == 3
\* islands of one iteration, at most
MaxIslands == 2
\* contact and limit constraints of one island, at most
MaxCons == 2

\* a finite set of numbers as the increasing sequence std::sort leaves
RECURSIVE SortedSeq(_)
SortedSeq(B) ==
  IF B = {} THEN <<>>
  ELSE LET b == CHOOSE x \in B : \A y \in B : x <= y
       IN  <<b>> \o SortedSeq(B \ {b})

\* the bodies of a sequence of super bodies
BodiesOf(super_bodies) == {super_bodies[k] : k \in 1..Len(super_bodies)}

\* determine_dq, lines 445-456: "dqm[start+j] = dq_sub[last+j]" for the one
\* coordinate of each super body in turn; a read past the end of dq_sub
\* yields junk[i]
RECURSIVE ScatterFrom(_, _, _, _, _)
ScatterFrom(dqm, super_bodies, dq_sub, junk, i) ==
  IF i > Len(super_bodies) THEN dqm
  ELSE ScatterFrom(
         [dqm EXCEPT ![super_bodies[i]] =
            IF i <= Len(dq_sub) THEN dq_sub[i] ELSE junk[i]],
         super_bodies, dq_sub, junk, i + 1)

\* the values of the environment
ZVals == {RZero, ROne}
IslandPDs(nb) ==
  {[super_bodies |-> SortedSeq(B), n |-> n] :
     B \in (SUBSET (1..nb)) \ {{}}, n \in 1..MaxCons}
IslandSeqs(nb) ==
  {pd \in UNION {[1..k -> IslandPDs(nb)] : k \in 0..MaxIslands} :
     \A a \in 1..Len(pd) : \A b \in 1..Len(pd) :
       a # b => BodiesOf(pd[a].super_bodies) \cap BodiesOf(pd[b].super_bodies) = {}}

\* no iteration of stabilize is under way
IdleDQ ==
  [pc |-> "idle", nb |-> 0, pd |-> <<>>, i |-> 0, dq |-> <<>>, zs |-> <<>>,
   solved |-> <<>>, oob |-> FALSE, surfaced |-> FALSE]

\* stabilize, lines 62-66: compute_problem_data(pd) and dq.set_zero(q.size());
\* one iteration is followed
ComputeProblemData ==
  /\ dd.pc = "idle"
  /\ \E nb \in 1..MaxDqBodies : \E pd \in IslandSeqs(nb) :
       dd' = [IdleDQ EXCEPT !.pc = "dq", !.nb = nb, !.pd = pd, !.dq = VZero(nb)]
  /\ UNCHANGED <<lk, rg, ts, st, cd, rn>>

\* determine_dq(pd[i], dq, body_index_map): the result of lcp_fast and, if it
\* fails, of lcp_lemke_regularized (reg, not called when fast holds) is not
\* kept; dq_sub is scattered whatever they returned, and nothing is returned
\* or thrown
DetermineDq ==
  /\ dd.pc = "dq" /\ dd.i < Len(dd.pd)
  /\ LET pd == dd.pd[dd.i + 1]
         m == Len(pd.super_bodies)
     IN \E fast \in BOOLEAN : \E reg \in BOOLEAN :
        \E dq_sub \in Vectors(pd.n, ZVals) : \E junk \in Vectors(m, ZVals) :
          /\ fast => reg
          /\ \A k \in 1..m : k <= pd.n => junk[k] = RZero
          /\ dd' = [dd EXCEPT
                      !.i = @ + 1,
                      !.dq = ScatterFrom(@, pd.super_bodies, dq_sub, junk, 1),
                      !.zs = Append(@, dq_sub),
                      !.solved = Append(@, fast \/ reg),
                      !.oob = @ \/ m > pd.n]
  /\ UNCHANGED <<lk, rg, ts, st, cd, rn>>

\* stabilize, line 69: update_q(dq, q) is called with the scattered dq
UpdateQCall ==
  /\ dd.pc = "dq" /\ dd.i = Len(dd.pd)
  /\ dd' = [dd EXCEPT !.pc = "done"]
  /\ UNCHANGED <<lk, rg, ts, st, cd, rn>>

(***************************************************************************)
(* ConstraintStabilization::set_unilateral_constraint_data (lines 262-420):*)
(* the assembly of the normal-direction blocks of one island's problem.    *)
(* What compute_constraint_data and compute_cross_constraint_data return   *)
(* (the first entry of MM) is the environment's; the inverse-inertia       *)
(* couplings are taken nonzero.                                            *)
(***************************************************************************)
\* contact constraints of the island, at most
MaxContacts == 2
\* the numbers of limit constraints of the island
LimitCounts == {0, 1}
\* the first entry of MM that the constraints compute
PdVals == {1, 2}

\* Cn_iM_CnT after lines 312 and 349-373: set_zero, then the entry (i, j) is
\* written in the branch "if (i == j)" only
Assemble_CnCn(N_CONTACTS, self, cross) ==
  [i \in 1..N_CONTACTS |-> [j \in 1..N_CONTACTS |->
     IF i = j THEN self[i] ELSE 0]]

\* Cn_iM_LT after lines 315 and 376-387: Cn_iM_LT(i,j) = the first entry of
\* the contact/limit cross data
Assemble_CnL(N_CONTACTS, N_LIMITS, crossL) ==
  [i \in 1..N_CONTACTS |-> [k \in 1..N_LIMITS |-> crossL[i][k]]]

\* no problem data has been set
IdlePD ==
  [pc |-> "idle", N_CONTACTS |-> 0, N_LIMITS |-> 0, self |-> <<>>,
   cross |-> <<>>, crossL |-> <<>>, Cn_iM_CnT |-> <<>>, Cn_iM_LT |-> <<>>]

\* one call of set_unilateral_constraint_data
SetUnilateralConstraintData ==
  /\ dd.pc = "idle"
  /\ \E nc \in 0..MaxContacts, nl \in LimitCounts :
     \E self \in [1..nc -> PdVals],
        cross \in [1..nc -> [1..nc -> PdVals]],
        crossL \in [1..nc -> [1..nl -> PdVals]] :
       dd' = [IdlePD EXCEPT
                !.pc = "pd", !.N_CONTACTS = nc, !.N_LIMITS = nl,
                !.self = self, !.cross = cross, !.crossL = crossL,
                !.Cn_iM_CnT = Assemble_CnCn(nc, self, cross),
                !.Cn_iM_LT = Assemble_CnL(nc, nl, crossL)]
  /\ UNCHANGED <<lk, rg, ts, st, cd, rn>>

(***************************************************************************)
(* RNEAlgorithm (src/src/RNEAlgorithm.cpp): the upward pass over the link  *)
(* tree of calc_inv_dyn_fixed_base, calc_constraint_forces and             *)
(* calc_inv_dyn_floating_base, in the global frame (every transform is the *)
(* identity).  Link 1 is the base, parent[i] is the parent of link i (0    *)
(* for the base).  The isolated quantity of link i (its net wrench, or its *)
(* isolated inertia and Z.A. vector) stands as the number 2^(i-1), so that *)
(* an accumulated sum tells which links were added into it, and how often. *)
(***************************************************************************)
\* links of an articulated body, the base included, at most
MaxLinks == 6

RNEVariants == {"fixed", "constraint", "floating"}

\* the link trees with n links
Trees(n) == {p \in [1..n -> 0..n] : \A i \in 1..n : IF i = 1 THEN p[i] = 0
                                                    ELSE p[i] \in 1..(i - 1)}

\* get_child_links, num_child_links
ChildLinks(parent, i) == {c \in 1..Len(parent) : parent[c] = i}

\* the isolated quantity of link i
Iso(i) == 2 ^ (i - 1)

\* the links of S with no child, in the order of the vector links
LeafQueue(parent, S) ==
  SortedSeq({i \in S : ChildLinks(parent, i) = {}})

\* the queue at the start of the upward loop: the leaves other than the base
\* (fixed base), preceded by the children of the base that
\* calc_constraint_forces has pushed and not popped (lines 277-282), or every
\* leaf, the base included (floating base)
InitialQueue(variant, parent) ==
  LET n == Len(parent)
  IN  IF variant = "fixed" THEN LeafQueue(parent, 2..n)
      ELSE IF variant = "constraint"
           THEN SortedSeq(ChildLinks(parent, 1)) \o LeafQueue(parent, 2..n)
           ELSE LeafQueue(parent, 1..n)

\* the accumulators at the start of the upward loop: forces is zero, I and Z
\* hold the isolated quantities (lines 504-514)
InitialAcc(variant, n) ==
  [i \in 1..n |-> IF variant = "floating" THEN Iso(i) ELSE 0]

\* no pass is under way
IdleRNE ==
  [pc |-> "idle", variant |-> "fixed", parent |-> <<0>>, queue |-> <<>>,
   processed |-> <<FALSE>>, acc |-> <<0>>, nproc |-> <<0>>, nadd |-> <<0>>,
   pops |-> 0, early |-> FALSE]

\* the link being processed has a child that is not yet processed
HasOpenChild(s, link) ==
  \E c \in ChildLinks(s.parent, link) : ~s.processed[c]

\* one iteration of the loop of calc_inv_dyn_fixed_base (lines 153-218) and
\* of calc_constraint_forces (lines 293-365), the front of the queue popped;
\* the variant below ignores the processed bitmap
UpwardFixed_NoBitmap(s) ==
  LET link == Head(s.queue)
      popped == [s EXCEPT !.queue = Tail(@), !.pops = @ + 1]
      p == s.parent[link]
      fi == s.acc[link] + Iso(link)
  IN  IF link = 1 THEN popped
      ELSE [popped EXCEPT
              !.queue = Append(@, p),
              !.acc = IF p = 1 THEN [@ EXCEPT ![link] = fi]
                      ELSE [@ EXCEPT ![link] = fi, ![p] = @ + fi],
              !.processed[link] = TRUE,
              !.nproc[link] = @ + 1,
              !.nadd[link] = IF p = 1 THEN @ ELSE @ + 1,
              !.early = @ \/ HasOpenChild(s, link)]

UpwardFixed(s) ==
  LET link == Head(s.queue)
      popped == [s EXCEPT !.queue = Tail(@), !.pops = @ + 1]
      p == s.parent[link]
      fi == s.acc[link] + Iso(link)
  IN  IF s.processed[link] THEN popped
      ELSE IF link = 1 THEN popped
      ELSE [popped EXCEPT
              !.queue = Append(@, p),
              !.acc = IF p = 1 THEN [@ EXCEPT ![link] = fi]
                      ELSE [@ EXCEPT ![link] = fi, ![p] = @ + fi],
              !.processed[link] = TRUE,
              !.nproc[link] = @ + 1,
              !.nadd[link] = IF p = 1 THEN @ ELSE @ + 1,
              !.early = @ \/ HasOpenChild(s, link)]

\* one iteration of the aggregation loop of calc_inv_dyn_floating_base
\* (lines 537-563)
UpwardFloating(s) ==
  LET link == Head(s.queue)
      popped == [s EXCEPT !.queue = Tail(@), !.pops = @ + 1]
      p == s.parent[link]
  IN  IF s.processed[link] THEN popped
      ELSE IF p = 0 THEN popped
      ELSE [popped EXCEPT
              !.queue = Append(@, p),
              !.acc[p] = @ + s.acc[link],
              !.processed[link] = TRUE,
              !.nproc[link] = @ + 1,
              !.nadd[link] = @ + 1,
              !.early = @ \/ HasOpenChild(s, link)]

\* a call of one of the three functions, up to the start of its upward loop;
\* one call is followed
CalcInvDyn ==
  /\ rn.pc = "idle"
  /\ \E variant \in RNEVariants : \E n \in 1..MaxLinks : \E parent \in Trees(n) :
       rn' = [pc |-> "up", variant |-> variant, parent |-> parent,
              queue |-> InitialQueue(variant, parent),
              processed |-> [i \in 1..n |-> FALSE],
              acc |-> InitialAcc(variant, n),
              nproc |-> [i \in 1..n |-> 0], nadd |-> [i \in 1..n |-> 0],
              pops |-> 0, early |-> FALSE]
  /\ UNCHANGED <<lk, rg, ts, st, cd, dd>>

\* "while (!link_queue.empty())": one iteration
UpwardPop ==
  /\ rn.pc = "up" /\ rn.queue # <<>>
  /\ rn' = IF rn.variant = "floating" THEN UpwardFloating(rn)
           ELSE UpwardFixed(rn)
  /\ UNCHANGED <<lk, rg, ts, st, cd, dd>>

\* the queue is empty: the loop is left and the joint forces are computed
UpwardDone ==
  /\ rn.pc = "up" /\ rn.queue = <<>>
  /\ rn' = [rn EXCEPT !.pc = "done"]
  /\ UNCHANGED <<lk, rg, ts, st, cd, dd>>

(***************************************************************************)
(* Specifications.                                                         *)
(***************************************************************************)
\* the LCP solver alone: the simulator stays as constructed, with no body
InitLCP ==
  /\ lk = IdleLemke /\ rg = IdleReg
  /\ cd = IdleCCD /\ dd = IdleDQ /\ rn = IdleRNE
  /\ ts = IdleTS(0, <<>>, <<>>, <<>>, ROne, FALSE, FALSE)
  /\ st = IdleST(RZero, "sum")

NextLCP ==
  \/ CallLemke
  \/ CallLemke3
  \/ CallLemkeEmpty
  \/ LemkeIter
  \/ LemkeCap
  \/ RegCall
  \/ RegVerifyRaw
  \/ RegTry
  \/ RegVerify
  \/ RegFail

SpecLCP == InitLCP /\ [][NextLCP]_vars

\* the stabilizer alone, called by the user on every modelled configuration
\* of bodies at rest
InitStab ==
  /\ lk = IdleLemke /\ rg = IdleReg
  /\ cd = IdleCCD /\ dd = IdleDQ /\ rn = IdleRNE
  /\ \E nb \in 0..MaxBodies :
     \E q \in Configurations(nb) :
     \E compliant \in Compliances(nb) :
     \E min_step_size \in MinStepSizes :
       ts = IdleTS(nb, q, VZero(nb), compliant, min_step_size, FALSE, FALSE)
  /\ \E eps \in EpsVals : \E gterm \in GTerms : st = IdleST(eps, gterm)

NextStab ==
  \/ Stabilize
  \/ StabIterate
  \/ Backtrack
  \/ UpdateQReturn

SpecStab == InitStab /\ [][NextStab]_vars

\* the time-stepping driver with its stabilizer (under one reading of the
\* line-search term), over every modelled world
InitSim ==
  /\ lk = IdleLemke /\ rg = IdleReg
  /\ cd = IdleCCD /\ dd = IdleDQ /\ rn = IdleRNE
  /\ \E nb \in StepWorlds :
     \E q \in Configurations(nb) :
     \E qd \in Vectors(nb, QdVals) :
     \E compliant \in Compliances(nb) :
     \E min_step_size \in MinStepSizes :
     \E has_cb \in BOOLEAN :
     \E ndebug \in BOOLEAN :
       ts = IdleTS(nb, q, qd, compliant, min_step_size, has_cb, ndebug)
  /\ \E eps \in EpsVals : st = IdleST(eps, "norm")

NextSim ==
  \/ Step
  \/ CAIterate
  \/ MiniStepFinish
  \/ PostStep
  \/ StepReturn
  \/ StabIterate
  \/ Backtrack
  \/ UpdateQReturn

SpecSim == InitSim /\ [][NextSim]_vars

\* a simulator with or without a dissipator and a mini-step callback
MiniWorlds == {1, 2}
InitMini ==
  /\ lk = IdleLemke /\ rg = IdleReg
  /\ cd = IdleCCD /\ dd = IdleDQ /\ rn = IdleRNE
  /\ \E nb \in MiniWorlds :
     \E q \in Configurations(nb) :
     \E qd \in Vectors(nb, QdVals) :
     \E min_step_size \in MinStepSizes :
     \E has_dissipator \in BOOLEAN :
     \E has_mini_cb \in BOOLEAN :
       ts = [IdleTS(nb, q, qd, [k \in 1..nb |-> FALSE], min_step_size, FALSE, TRUE)
               EXCEPT !.has_dissipator = has_dissipator,
                      !.has_mini_cb = has_mini_cb]
  /\ \E eps \in EpsVals : st = IdleST(eps, "norm")

SpecMini == InitMini /\ [][NextSim]_vars

\* every state variable as constructed
Constructed ==
  /\ lk = IdleLemke /\ rg = IdleReg
  /\ ts = IdleTS(0, <<>>, <<>>, <<>>, ROne, FALSE, FALSE)
  /\ st = IdleST(RZero, "sum")
  /\ cd = IdleCCD /\ dd = IdleDQ /\ rn = IdleRNE

\* the contact generator alone
InitCCD == Constructed
NextCCD == FindContacts
SpecCCD == InitCCD /\ [][NextCCD]_vars

\* the islands of one iteration of stabilize
InitDQ == Constructed
NextDQ == ComputeProblemData \/ DetermineDq \/ UpdateQCall
SpecDQ == InitDQ /\ [][NextDQ]_vars

\* the assembly of an island's problem data
InitPD ==
  /\ lk = IdleLemke /\ rg = IdleReg
  /\ cd = IdleCCD /\ dd = IdlePD /\ rn = IdleRNE
  /\ ts = IdleTS(0, <<>>, <<>>, <<>>, ROne, FALSE, FALSE)
  /\ st = IdleST(RZero, "sum")
NextPD == SetUnilateralConstraintData
SpecPD == InitPD /\ [][NextPD]_vars

\* the upward pass of RNE
InitRNE == Constructed
NextRNE == CalcInvDyn \/ UpwardPop \/ UpwardDone
SpecRNE == InitRNE /\ [][NextRNE]_vars

(***************************************************************************)
(* Properties of the LCP solver.                                           *)
(***************************************************************************)
\* C1: whenever lcp_lemke_regularized returns true, z >= -tau0, w = M'z + q
\* >= -tau0 componentwise and |z.w| <= n * tau0, M' being the matrix of the
\* accepted attempt and tau0 the wrapper's ZERO_TOL.
C1_FeasibleOnSuccess ==
  (rg.pc = "ret" /\ rg.res /\ rg.n > 0) =>
    LET w == VAdd(MatVec(rg.Macc, rg.z), rg.q)
        tau0 == rg.ZERO_TOL
    IN  /\ Len(rg.z) = rg.n
        /\ \A i \in 1..rg.n : RLe(RNeg(tau0), rg.z[i])
        /\ \A i \in 1..rg.n : RLe(RNeg(tau0), w[i])
        /\ RLe(RAbs(Dot(rg.z, w)), RMul(RI(rg.n), tau0))

\* a regularized attempt was accepted with a non-zero z
C1_Witness ==
  /\ rg.pc = "ret" /\ rg.res /\ rg.n = 2
  /\ rg.Macc # rg.M
  /\ \E i \in 1..rg.n : RLt(RZero, rg.z[i])

\* the tolerance in force inside lcp_lemke and the least entry of q
LemkeActive == lk.pc # "idle" /\ lk.n >= 1
TookTrivialExit ==
  /\ lk.pc = "ret" /\ lk.exit = "trivial" /\ lk.res
  /\ lk.z = VZero(lk.n) /\ lk.nbody = 0

\* C2 as stated: the trivial exit is taken whenever min(q) >= -tau0,
\* the boundary min(q) = -tau0 included.
C2_TrivialExitInclusive ==
  (LemkeActive /\ RLe(RNeg(lk.zero_tol), VMin(lk.q))) => TookTrivialExit

\* C2 amended: the trivial exit (z = 0, true, no pivot) is taken exactly
\* when min(q) > -tau0; at min(q) = -tau0 it is not taken.
C2_TrivialExitStrict ==
  LemkeActive =>
    /\ RLt(RNeg(lk.zero_tol), VMin(lk.q)) => TookTrivialExit
    /\ lk.exit = "trivial" => RLt(RNeg(lk.zero_tol), VMin(lk.q))

\* M = I, q = [1, 2] leaves by the trivial exit, in both variants' code path
C2_Witness ==
  /\ TookTrivialExit /\ lk.n = 2
  /\ lk.M = <<<<ROne, RZero>>, <<RZero, ROne>>>>
  /\ lk.q = <<RI(1), RI(2)>>

\* C3: the body of the main loop runs at most min(1000, 50n) times, and when
\* the cap is reached lcp_lemke returns false with z of length n.
C3_IterationCap ==
  LemkeActive =>
    /\ lk.nbody <= MAXITER(lk.n)
    /\ (lk.pc = "ret" /\ lk.exit = "maxiter") =>
         (~lk.res /\ Len(lk.z) = lk.n /\ lk.nbody = MAXITER(lk.n))

\* a call that used up all its iterations
C3_Witness ==
  lk.pc = "ret" /\ lk.exit = "maxiter" /\ lk.nbody = MAXITER(lk.n) /\ ~lk.res

(***************************************************************************)
(* Properties of the constraint stabilizer.                                *)
(***************************************************************************)
\* stabilize has returned and nothing has run since
StabReturned == st.pc = "ret"
\* stabilize is inside its projection loop
InStabLoop == st.pc \in {"iter", "ls"}

\* C4: whenever stabilize returns, every signed distance of the simulator's
\* current pairwise-distance list is >= -eps (nothing to show for an empty
\* list).
C4_MinDistOnReturn ==
  StabReturned =>
    \A k \in 1..Len(ts.pdi) : RLe(RNeg(st.eps), ts.pdi[k].dist)

\* stabilize returned after at least one iteration of its loop
C4_Witness ==
  /\ StabReturned /\ st.iters > 0 /\ Len(ts.pdi) > 0
  /\ ts.pdi = calc_pairwise_distances(ts.q)

\* C5: stabilize always terminates: the projection loop runs only while the
\* minimum gap is negative, and no iteration leaves the configuration as it
\* was with the loop test still true (such an iteration repeats for ever).
C5_StabilizeTerminates ==
  /\ st.pc = "iter" => RLt(st.min_dist, RZero)
  /\ ~st.stalled

\* C6: a call of stabilize made immediately after a call of stabilize has
\* returned executes no iteration of the projection loop and leaves every
\* body's generalized coordinates as they were.
C6_Idempotent ==
  (st.pc # "idle" /\ st.second) =>
    /\ StabReturned
    /\ st.iters = 0
    /\ ts.q = st.q_entry

\* the second of two calls returned, the first having moved the bodies
C6_Witness ==
  StabReturned /\ st.second /\ st.prev_iters > 0 /\ ts.nb = 2

\* C7: a pair with a compliant body does not make stabilize enter or continue
\* its loop: whenever the loop test passes, some pair neither body of which
\* is compliant has a signed distance below eps.
C7_CompliantExcluded ==
  st.pc = "iter" =>
    \E k \in NonCompliant(ts.pdi, ts.compliant) : RLt(ts.pdi[k].dist, st.eps)

(***************************************************************************)
(* Properties of the time-stepping driver.                                 *)
(***************************************************************************)
\* step() has returned and nothing has run since
StepReturned == ts.pc = "ret"
\* the mini-steps of the current step() that have returned
MiniStepsReturned == IF ts.pc \in {"ca", "dyn"} THEN ts.nmini - 1 ELSE ts.nmini

\* C8: with no body, step(dt) for dt > 0 takes exactly one mini-step (of one
\* pass), advances current_time by exactly dt, returns dt, creates no
\* constraint and no pairwise distance, and its stabilization does not
\* iterate.
C8_EmptyWorldStep ==
  (ts.nb = 0 /\ ts.pc # "idle") =>
    /\ ts.nmini = 1 /\ ts.nsub <= 1
    /\ ts.q = <<>> /\ ts.qd = <<>> /\ ts.pdi = <<>> /\ ts.constraints = {}
    /\ ~InStabLoop
    /\ ts.pc \in {"post", "stab", "ret"} =>
         /\ ts.nsub = 1
         /\ ts.current_time = RAdd(ts.t0, ts.step_size)
    /\ StepReturned =>
         /\ ts.res = ts.step_size
         /\ RLt(RZero, ts.res)
         /\ StabReturned /\ st.iters = 0

\* step() returned in a world without bodies
C8_Witness ==
  /\ ts.nb = 0 /\ StepReturned /\ ts.res = <<1, 2>>
  /\ ts.current_time = <<1, 2>>

\* C9: every mini-step returns an elapsed h with
\* min(min_step_size, remaining) <= h <= remaining and h > 0, so that a step
\* takes at most dt / min_step_size mini-steps (rounded up).
C9_MiniStepProgress ==
  /\ MiniStepsReturned > 0 =>
       /\ RLe(RMin(ts.min_step_size, ts.last_dt), ts.last_h)
       /\ RLe(ts.last_h, ts.last_dt)
       /\ RLt(RZero, ts.last_h)
  /\ RLt(RMul(RI(ts.nmini - 1), ts.min_step_size), ts.step_size) \/ ts.nmini = 0

\* the phases of one step(), in order: the callback if one is set and the
\* violation metric if the build records it
StepPhases(has_cb, metric) ==
  PhasesBeforeEuler
    \o (IF has_cb THEN <<"post_step_callback_fn">> ELSE <<>>)
    \o <<"stabilize">>
    \o (IF metric THEN <<"cvio">> ELSE <<>>)
IsPrefix(a, b) == Len(a) <= Len(b) /\ a = SubSeq(b, 1, Len(a))

\* C10 (as stated): every step() runs determine_geometries, broad_phase,
\* calc_pairwise_distances, step_si_Euler, the post-step callback (once, if
\* set), stabilize and the recording of the violation metric, in this order.
C10_StepOrderWithMetric ==
  /\ ts.pc # "idle" => IsPrefix(ts.log, StepPhases(ts.has_cb, TRUE))
  /\ StepReturned => ts.log = StepPhases(ts.has_cb, TRUE)

\* C10 (amended): the same order, the violation metric being recorded only
\* by a build without NDEBUG.
C10_StepOrder ==
  /\ ts.pc # "idle" => IsPrefix(ts.log, StepPhases(ts.has_cb, ~ts.ndebug))
  /\ StepReturned => ts.log = StepPhases(ts.has_cb, ~ts.ndebug)

\* a step() with a callback set returned after its stabilization iterated
C10_Witness ==
  /\ StepReturned /\ ts.has_cb /\ st.iters > 0
  /\ Len(ts.log) >= 6

\* the place of a phase in the log of the current step(), 0 if it has not run
PhaseIndex(log, phase) ==
  IF \E i \in 1..Len(log) : log[i] = phase
  THEN CHOOSE i \in 1..Len(log) : log[i] = phase
  ELSE 0

\* C11 (as stated): within a step, stabilization has completed when the
\* post-step callback is invoked: once the callback has run, "stabilize" is
\* before it in the log and the stabilizer has returned.
C11_StabilizeBeforeCallback ==
  PhaseIndex(ts.log, "post_step_callback_fn") > 0 =>
    /\ PhaseIndex(ts.log, "stabilize") > 0
    /\ PhaseIndex(ts.log, "stabilize") < PhaseIndex(ts.log, "post_step_callback_fn")
    /\ StabReturned

\* C11 (amended): within a step, the post-step callback (if set) is invoked
\* after step_si_Euler and before stabilization starts: whenever the
\* stabilization of a step has been called, is iterating or has returned, the
\* callback is already in the log, right after step_si_Euler and right before
\* "stabilize".
C11_CallbackBeforeStabilize ==
  /\ (ts.has_cb /\ PhaseIndex(ts.log, "stabilize") > 0) =>
       /\ PhaseIndex(ts.log, "post_step_callback_fn")
            = PhaseIndex(ts.log, "step_si_Euler") + 1
       /\ PhaseIndex(ts.log, "stabilize")
            = PhaseIndex(ts.log, "post_step_callback_fn") + 1
  /\ (ts.pc \in {"stab", "ret"} /\ st.caller = "step") =>
       PhaseIndex(ts.log, "stabilize") > 0
  /\ ts.pc \in {"ca", "dyn", "post"} =>
       /\ st.pc = "idle"
       /\ PhaseIndex(ts.log, "stabilize") = 0
       /\ PhaseIndex(ts.log, "post_step_callback_fn") = 0

\* the stabilization of a step is iterating, the callback having been invoked
C11_Witness ==
  /\ ts.pc = "stab" /\ InStabLoop /\ ts.has_cb
  /\ PhaseIndex(ts.log, "post_step_callback_fn") = 5

\* C15: the position-integration loop of do_mini_step changes coordinates
\* only: every pass leaves every generalized velocity and the snapshot
\* q_save as they were, and after it the coordinates are
\* q_save + (time elapsed in the mini-step) * qd.
C15_PositionsOnly ==
  [][ts.pc = "ca" =>
       /\ ts'.qd = ts.qd
       /\ ts'.qsave = ts.qsave
       /\ ts'.q = VAdd(VScale(ts.qd, ts'.h), ts.qsave)]_vars

\* a second pass of a mini-step has moved a body with non-zero velocity
C15_Witness ==
  /\ ts.pc = "dyn" /\ ts.nmini = 1 /\ ts.nsub = 2 /\ ts.nb > 0
  /\ ts.qd[1] # RZero
  /\ ts.q # ts.qsave

(***************************************************************************)
(* Properties of the contact generator.                                    *)
(***************************************************************************)
\* find_contacts has returned from the kernel for two spheres
SphereSphereDone == cd.pc = "done" /\ cd.kernel = "sphere_sphere"

\* C12: find_contacts_sphere_sphere emits exactly one contact when the centre
\* distance is <= rA + rB (d # 0), at the midpoint of the two closest surface
\* points and with normal d/|d|, and none when it is > rA + rB.
C12_SphereSphereContact ==
  (SphereSphereDone /\ cd.cA0 # cd.cB0) =>
    LET d == RSub(cd.cA0, cd.cB0)
        n == Normalize(d)
        mid == RMul(RAdd(RSub(cd.cA0, RMul(n, cd.rA)),
                         RAdd(cd.cB0, RMul(n, cd.rB))), <<1, 2>>)
    IN  IF RLe(RAbs(d), RAdd(cd.rA, cd.rB))
        THEN cd.contacts = <<[point |-> mid, normal |-> n]>>
        ELSE cd.contacts = <<>>

\* C13: the dispatch of find_contacts is symmetric under argument swap, a
\* sphere or a box against a plane selects plane-generic, a box against a
\* heightmap selects convex-heightmap, and a plane against a plane and a
\* heightmap against a heightmap are skipped (no kernel, no contact).
C13_DispatchSymmetric ==
  cd.pc = "done" =>
    /\ cd.kernel = Dispatch(cd.pB, cd.pA, cd.cvx).kernel
    /\ ({cd.pA, cd.pB} \in {{"sphere", "plane"}, {"box", "plane"}}
          => cd.kernel = "plane_generic")
    /\ ({cd.pA, cd.pB} = {"box", "heightmap"} => cd.kernel = "convex_heightmap")
    /\ ((cd.pA = cd.pB /\ cd.pA \in {"plane", "heightmap"})
          => cd.kernel = "none" /\ cd.contacts = <<>>)

\* C14: no contact that find_contacts emits, whatever the kernel, has a
\* normal of zero norm.
C14_NoDegenerateNormal ==
  \A k \in 1..Len(cd.contacts) : cd.contacts[k].normal # RZero

(***************************************************************************)
(* Properties of determine_dq.                                             *)
(***************************************************************************)
\* the problem data of one block-diagonal LCP over all islands: the super
\* bodies of every island, sorted, and the islands' solutions in a row
RECURSIVE Concat(_, _)
Concat(zs, k) == IF k = 0 THEN <<>> ELSE Concat(zs, k - 1) \o zs[k]
BlockBodies == SortedSeq(UNION {BodiesOf(dd.pd[k].super_bodies) : k \in 1..Len(dd.pd)})
BlockDq == ScatterFrom(VZero(dd.nb), BlockBodies, Concat(dd.zs, Len(dd.zs)),
                       VZero(dd.nb), 1)

\* C16: when every island has been processed (no read past the end of a
\* solution, in either way of solving), the global dq is the dq of the one
\* block-diagonal problem over all islands.
C16_IslandIndependence ==
  (dd.pc = "done" /\ ~dd.oob /\ Len(BlockBodies) <= Len(Concat(dd.zs, Len(dd.zs))))
    => dd.dq = BlockDq

\* C17: an island for which lcp_fast and lcp_lemke_regularized both failed
\* is reported to the caller, and its unsolved z is not written into dq.
C17_FailureSurfaced ==
  \A k \in 1..dd.i :
    ~dd.solved[k] =>
      /\ dd.surfaced
      /\ \A b \in BodiesOf(dd.pd[k].super_bodies) : dd.dq[b] = RZero

(***************************************************************************)
(* Properties of the upward pass of RNE.                                   *)
(***************************************************************************)
NLinks == Len(rn.parent)
\* the links of the subtree rooted at link i
RECURSIVE Subtree(_, _)
Subtree(parent, i) ==
  {i} \cup UNION {Subtree(parent, c) : c \in ChildLinks(parent, i)}
RECURSIVE IsoSum(_)
IsoSum(S) ==
  IF S = {} THEN 0
  ELSE LET i == CHOOSE x \in S : TRUE IN Iso(i) + IsoSum(S \ {i})
\* the links whose accumulator the pass computes
Accumulating == IF rn.variant = "floating" THEN 1..NLinks ELSE 2..NLinks

C19_ChildrenFirst == ~rn.early

\* C20: after the upward pass the accumulator of every link (the base
\* included for the floating base) is the sum of the isolated quantities over
\* the subtree rooted at the link.
C20_SubtreeSums ==
  rn.pc = "done" =>
    \A i \in Accumulating : rn.acc[i] = IsoSum(Subtree(rn.parent, i))

(***************************************************************************)
(* The range of regularization factors.                                    *)
(***************************************************************************)
\* the wrapper has returned after at least the unregularized attempt
RegReturned == rg.pc = "ret" /\ rg.n > 0
\* rf is one of min_exp, min_exp + step_exp, min_exp + 2*step_exp, ...
InRfSequence(rf) ==
  IF rg.step_exp = 0 THEN rf = rg.min_exp
  ELSE rf >= rg.min_exp /\ (rf - rg.min_exp) % rg.step_exp = 0
\* rf was the exponent of some regularized attempt
WasTried(rf) == \E i \in 1..Len(rg.tried) : rg.tried[i] = rf

\* C21 (as stated): the wrapper returns false only after every rf of the
\* sequence min_exp, min_exp + step_exp, ... up to and including max_exp
\* has been tried.
C21_TriesThroughMaxExp ==
  (RegReturned /\ ~rg.res) =>
    \A rf \in rg.min_exp..rg.max_exp : InRfSequence(rf) => WasTried(rf)

\* C21 (amended): the k-th regularized attempt uses rf = min_exp +
\* (k-1)*step_exp, every attempted rf is strictly below max_exp, a true
\* return is the verified solution of the last attempt made, and the wrapper
\* returns false only after every rf of the sequence strictly below max_exp
\* has been tried.
C21_TriesBelowMaxExp ==
  /\ \A i \in 1..Len(rg.tried) :
       /\ rg.tried[i] = rg.min_exp + (i - 1) * rg.step_exp
       /\ rg.tried[i] < rg.max_exp
  /\ (RegReturned /\ rg.res /\ Len(rg.tried) > 0) =>
       /\ rg.Macc = AddDiag(rg.M, Pow10(rg.tried[Len(rg.tried)]))
       /\ VerifyReg(rg.M, rg.q, rg.z, Pow10(rg.tried[Len(rg.tried)]), rg.ZERO_TOL)
  /\ (RegReturned /\ ~rg.res) =>
       \A rf \in rg.min_exp..(rg.max_exp - 1) : InRfSequence(rf) => WasTried(rf)

\* the wrapper returned false after two regularized attempts
C21_Witness ==
  RegReturned /\ ~rg.res /\ rg.step_exp = 1 /\ rg.tried = <<-1, 0>>

\* C30: lcp_lemke_regularized makes a bounded number of calls of lcp_lemke,
\* whatever min_exp, step_exp and max_exp are: the unregularized call and at
\* most one call for each integer exponent from min_exp up to max_exp.
C30_BoundedCalls ==
  rg.ncalls <= 1 + (IF rg.max_exp >= rg.min_exp
                    THEN rg.max_exp - rg.min_exp + 1 ELSE 0)

(***************************************************************************)
(* The choice of the leaving variable and the end of the pivoting.         *)
(***************************************************************************)
\* the complement of variable v (w_i <-> z_i)
Complement(v, n) == IF v < n THEN n + v ELSE v - n
\* the index of the artificial variable
Artificial(n) == 2 * n
\* the artificial variable is in the basis
ArtificialBasic == \E i \in 1..lk.n : lk.bas[i] = Artificial(lk.n)
\* the step from the unprimed to the primed state is a pivot of the main loop
IsPivot == lk.pc = "loop" /\ lk'.pc = "loop" /\ lk'.iter = lk.iter + 1

\* C22: in every ratio test (dense and sparse), the leaving position is one
\* of the retained candidates; it is the artificial variable's position if
\* that is retained, else a retained position with the largest entry of the
\* pivot column; the variable written into that position is the complement
\* of the previous leaving variable, and no other position changes.
C22_LeavingChoice ==
  [][IsPivot =>
      LET J == lk'.lastJ
          lv == lk'.lastlv
          d == lk'.lastd
          t == Artificial(lk.n)
      IN  /\ \E k \in 1..Len(J) : J[k] = lv
          /\ lk'.leaving = lk.bas[lv]
          /\ (\E k \in 1..Len(J) : lk.bas[J[k]] = t) => lk'.leaving = t
          /\ (\A k \in 1..Len(J) : lk.bas[J[k]] # t) =>
               \A k \in 1..Len(J) : RLe(d[J[k]], d[lv])
          /\ lk'.bas[lv] = Complement(lk.leaving, lk.n)
          /\ \A i \in 1..lk.n : i # lv => lk'.bas[i] = lk.bas[i]]_vars

\* a pivot of the dense variant chose, among two retained candidates without the artificial
\* variable, the one with the strictly larger pivot-column entry
C22_Witness ==
  /\ lk.pc = "loop" /\ lk.iter > 0 /\ Len(lk.lastJ) = 2
  /\ lk.variant = "dense" /\ lk.leaving # Artificial(lk.n)
  /\ \A k \in 1..2 : lk.lastJ[k] # lk.lastlv => lk.bas[lk.lastJ[k]] # Artificial(lk.n)
  /\ \E k \in 1..2 : RLt(lk.lastd[lk.lastJ[k]], lk.lastd[lk.lastlv])

\* C29: lcp_lemke reports "maximum number of iterations exceeded" only if
\* the artificial variable is still basic: a pivot that selects the
\* artificial variable as leaving, the one of the last permitted iteration
\* included, makes the call return true.
C29_CapOnlyIfArtificialBasic ==
  (lk.pc = "ret" /\ lk.exit = "maxiter") => ArtificialBasic

(***************************************************************************)
(* The sparse variant against the dense variant.                           *)
(***************************************************************************)
\* frame f as the dense variant computes on it, relabelled as sparse
AsDenseStep(f) == [LemkeStep([f EXCEPT !.variant = "dense"], {}) EXCEPT !.variant = "sparse"]
\* the initial basis is nonsingular in the dense variant
DenseBasisRegular(M, z0, n) ==
  ~IsSingular(InitialBasis("dense", M, InitialBas(z0, n), InitialNonbas(z0, n)))

\* C23: the sparse lcp_lemke does what the dense one does on the same M, q
\* and initial guess while every basis is nonsingular: it enters the main
\* loop in the same state (same initial basis) and each of its iterations
\* (ratio test on the current pivot column) produces the state, or the
\* return value, that the dense iteration produces.
C23_SparseAsDense ==
  [][/\ (/\ lk.pc = "loop" /\ lk.variant = "sparse" /\ lk' # lk
         /\ LoopTest(lk.iter, lk.n) /\ ~IsSingular(lk.Bl))
          => lk' = AsDenseStep(lk)
     /\ (lk.pc = "idle" /\ lk'.pc # "idle" /\ lk'.variant = "sparse" /\ lk'.n > 0)
          => \A z0 \in Guesses(lk'.n) :
               (/\ lk' = LemkeEntry("sparse", lk'.M, lk'.q, z0, lk'.piv_tol,
                                    lk'.zero_tol, lk'.caller)
                /\ DenseBasisRegular(lk'.M, z0, lk'.n))
                 => lk' = [LemkeEntry("dense", lk'.M, lk'.q, z0, lk'.piv_tol,
                                      lk'.zero_tol, lk'.caller)
                             EXCEPT !.variant = "sparse"]]_vars

(***************************************************************************)
(* The phases of a mini-step.                                              *)
(***************************************************************************)
\* a mini-step of the current step has completed
MiniStepDone == ts.mlog # <<>>
\* the position of phase p in the record of the step's last mini-step
\* (0: absent)
MiniIndex(p) ==
  IF \E i \in 1..Len(ts.mlog) : ts.mlog[i] = p
  THEN CHOOSE i \in 1..Len(ts.mlog) : ts.mlog[i] = p
  ELSE 0
\* phase p occurs exactly n times in the record of the last mini-step
MiniCount(p, n) == Cardinality({i \in 1..Len(ts.mlog) : ts.mlog[i] = p}) = n
\* the phases every mini-step has, in the order of the claim
MiniOrder ==
  <<"integrate_positions", "precalc_fwd_dyn",
    "calc_compliant_unilateral_constraint_forces", "calc_fwd_dyn",
    "integrate_velocities", "calc_pairwise_distances",
    "find_unilateral_constraints",
    "calc_impacting_unilateral_constraint_forces", "update_time">>

\* C24: every mini-step runs position integration, forward-dynamics
\* preparation, compliant contact forces, forward dynamics, velocity
\* integration (by the h the positions were advanced by), the dissipator
\* (only if configured, between velocity integration and the distance
\* refresh), distance refresh, constraint collection, the impulsive solve
\* with restitution -1, current_time += h, and last the mini-step callback
\* exactly once if set (never otherwise); the value returned is that h.
C24_MiniStepOrder ==
  MiniStepDone =>
    /\ \A i \in 1..Len(MiniOrder) : MiniCount(MiniOrder[i], 1)
    /\ \A i \in 1..(Len(MiniOrder) - 1) :
         MiniIndex(MiniOrder[i]) < MiniIndex(MiniOrder[i + 1])
    /\ MiniIndex("integrate_positions") = 1
    /\ IF ts.has_dissipator
       THEN /\ MiniCount("dissipator", 1)
            /\ MiniIndex("dissipator") = MiniIndex("integrate_velocities") + 1
       ELSE MiniCount("dissipator", 0)
    /\ IF ts.has_mini_cb
       THEN /\ MiniCount("post_mini_step_callback_fn", 1)
            /\ MiniIndex("post_mini_step_callback_fn") = Len(ts.mlog)
            /\ MiniIndex("update_time") = Len(ts.mlog) - 1
       ELSE /\ MiniCount("post_mini_step_callback_fn", 0)
            /\ MiniIndex("update_time") = Len(ts.mlog)
    /\ ts.vh = ts.last_h /\ ts.adv = ts.last_h
    /\ ts.cor = RNeg(ROne)

\* a mini-step of positive length, made of more than one sub-step, has
\* completed with a dissipator and a mini-step callback configured
C24_Witness ==
  /\ MiniStepDone /\ ts.has_dissipator /\ ts.has_mini_cb
  /\ RLt(RZero, ts.last_h) /\ ts.nsub > 1

(***************************************************************************)
(* The violation measure, the line search and the layout of q.             *)
(***************************************************************************)
\* update_q is inside its line search: s0 was computed from the list whose
\* minimum is st.min_dist, and a trial configuration has been written
InLineSearch == st.pc = "ls"
\* the step from the unprimed to the primed state is the return of update_q
UpdateQReturns == st.pc = "ls" /\ st'.pc \in {"iter", "ret"}

\* C25: compute_s returns max(0, -min_gap) (plus the joint-limit violations,
\* of which a world of rigid bodies has none): it is 0 exactly when no pair
\* interpenetrates and positive when some pair has a negative gap.
C25_ViolationMeasure ==
  InLineSearch =>
    /\ st.s0 = RMax(RZero, RNeg(st.min_dist))
    /\ (st.s0 = RZero) <=> RLe(RZero, st.min_dist)

\* C26: update_q returns only with a trial configuration whose violation is
\* strictly smaller than that of the old configuration; a step that leaves
\* s unchanged is never accepted.
C26_StrictDecrease ==
  [][UpdateQReturns => RLt(compute_s(ts.pdi), st.s0)]_vars

\* C28: the bodies read their coordinates from the global vector at the
\* offsets at which get_body_configurations wrote them: after
\* update_body_configurations(qstar) body k holds the k-th segment of qstar,
\* for any number of bodies (so writing back what was read changes nothing).
C28_LayoutConsistent ==
  InLineSearch => \A k \in 1..ts.nb : ts.q[k] = st.qstar[k]

(***************************************************************************)
(* The blocks of an island's problem data.                                 *)
(***************************************************************************)
\* set_unilateral_constraint_data has returned
ProblemDataSet == dd.pc = "pd"

\* C27: after set_unilateral_constraint_data every entry Cn_iM_CnT(i,j),
\* i # j, holds what compute_cross_constraint_data gave for contacts i and
\* j, every Cn_iM_CnT(i,i) what compute_constraint_data gave for contact i,
\* and every Cn_iM_LT(i,k) the contact/limit cross value.
C27_CrossTermsSet ==
  ProblemDataSet =>
    /\ \A i \in 1..dd.N_CONTACTS : \A j \in 1..dd.N_CONTACTS :
         dd.Cn_iM_CnT[i][j] = IF i = j THEN dd.self[i] ELSE dd.cross[i][j]
    /\ \A i \in 1..dd.N_CONTACTS : \A k \in 1..dd.N_LIMITS :
         dd.Cn_iM_LT[i][k] = dd.crossL[i][k]

====
